---- MODULE Spec2Model ----
(***************************************************************************)
(* A model of the madVR Envy client (src/madvr_envy/client.py) as a        *)
(* cooperative scheduler of asyncio tasks: application tasks that call     *)
(* start(), stop() and command(), and the listen tasks the client spawns.  *)
(* One action is the code one task runs between two suspension points      *)
(* (await of connect, close, read_line, send_line, the command lock, the   *)
(* ack future, the listen task, the backoff sleep).                        *)
(***************************************************************************)
EXTENDS Integers, Sequences, FiniteSets, TLC

(* ---------------------------------------------------------------- bounds *)

\* API calls made in one run.
MaxCalls == 3
\* Transports the transport factory hands out in one run.
MaxTransports == 3
\* Listen tasks created in one run.
MaxTasks == 2
\* Transports the factory hands out in a run that follows one listen task
\* through its reconnect episodes.
MaxAttempts == 4
\* API calls, transports and listen tasks in a run with callbacks.
MaxEventCalls == 2
MaxEventTransports == 3
MaxEventTasks == 2
\* The same for the runs with tasks in wait_synced.
MaxSyncCalls == 4
MaxSyncTransports == 3
MaxSyncTasks == 1
\* The same for the runs with enumerations, and the messages the listen
\* loop reads during one enumeration.
MaxEnumCalls == 3
MaxEnumTransports == 1
MaxEnumTasks == 1
MaxEnumSeen == 4
\* API calls, and messages read during one enumeration, in the runs that
\* follow two enumerations to their exits.
MaxExitCalls == 3
MaxExitSeen == 2

\* The application tasks that call the client.
Callers == {"a", "b"}

\* The callbacks the application registers, in the order tuple(self._callbacks)
\* lists them; k1 raises an exception whenever it is invoked, k2 returns.
Callbacks == {"k1", "k2"}
Raises(k) == k = "k1"

\* The on_message closure that the enumeration called by task c registers.
OnMessage(c) == IF c = "a" THEN "on_a" ELSE "on_b"

\* A callback of the application that deregisters k2 whenever it is
\* invoked.
Deregisterer == "kd"

\* The closures that register_adapter_callback makes, and the adapters the
\* application has made to give to it.
Wrapped == {"w1", "w2"}
Adapters == {"x", "y"}

AllCallbacks ==
  Callbacks \cup {OnMessage(c) : c \in Callers} \cup {Deregisterer}
    \cup Wrapped

\* The order in which tuple(self._callbacks) lists the callbacks.
CallbackOrder == <<"kd", "k1", "k2", "on_a", "on_b", "w1", "w2">>

(* ------------------------------------------------------ optional values *)

None == <<>>
Some(v) == <<v>>

(* ------------------------------------------------------------- protocol *)

\* The lines the device sends in this model.
WelcomeLine == "WELCOME to Envy v1.1.3"
OkLine == "OK"
ErrorLine == "ERROR \"invalid command\""
ResetTemporaryLine == "ResetTemporary"
UnknownLine == "Bogus 1 2"
StandbyLine == "Standby"
DisplaysLine == "ProfileGroup displayProfiles \"Displays\""
AmbientLine == "ProfileGroup customProfileGroup1 \"Ambient Light\""
ProfileGroupEndLine == "ProfileGroup."
Lines == {WelcomeLine, OkLine, ErrorLine}

OkMessage == [type |-> "Ok"]
ErrorMessage(text) == [type |-> "Error", error |-> text]
WelcomeMessage(version) == [type |-> "Welcome", version |-> version]

\* parse_message on the lines above.
ParseMessage(line) ==
  CASE line = WelcomeLine -> WelcomeMessage("1.1.3")
    [] line = OkLine -> OkMessage
    [] line = ErrorLine -> ErrorMessage("invalid command")
    [] line = ResetTemporaryLine -> [type |-> "ResetTemporary"]
    [] line = StandbyLine -> [type |-> "Standby"]
    [] line = DisplaysLine ->
         [type |-> "ProfileGroup", group_id |-> "displayProfiles",
          name |-> "Displays"]
    [] line = AmbientLine ->
         [type |-> "ProfileGroup", group_id |-> "customProfileGroup1",
          name |-> "Ambient Light"]
    [] line = ProfileGroupEndLine -> [type |-> "ProfileGroupEnd"]
    [] OTHER -> [type |-> "Unknown", raw |-> line]

\* The command line a caller sends.
CommandLine(c) == IF c = "a" THEN "GetMacAddress" ELSE "Nope"

\* enum_profile_groups_collect: the command line, and the names of the item
\* and end types of its enumeration.
EnumCommandLine == "EnumProfileGroups"
ItemType == "ProfileGroup"
EndType == "ProfileGroupEnd"
TypeName(type) == IF type = ItemType THEN "ProfileGroupMessage"
                  ELSE "ProfileGroupEndMessage"

(* ---------------------------------------------------------------- state *)

\* EnvyState() as constructed: the fields the supervisor claims read.
InitialState ==
  [version |-> None, is_on |-> None, standby |-> None,
   temporary_reset_count |-> 0, seen_welcome |-> FALSE]

\* EnvyState.reset_runtime_values
ResetRuntimeValues(st) ==
  [st EXCEPT !.version = None, !.is_on = None, !.standby = None,
             !.temporary_reset_count = 0, !.seen_welcome = FALSE]

\* EnvyState.apply
Apply(st, m) ==
  CASE m.type = "Welcome" ->
         [st EXCEPT !.version = Some(m.version), !.seen_welcome = TRUE,
                    !.is_on = Some(TRUE), !.standby = Some(FALSE)]
    [] m.type = "Standby" ->
         [st EXCEPT !.is_on = Some(FALSE), !.standby = Some(TRUE)]
    [] m.type = "PowerOff" ->
         [st EXCEPT !.is_on = Some(FALSE), !.standby = Some(FALSE)]
    [] m.type = "ResetTemporary" ->
         [st EXCEPT !.temporary_reset_count = @ + 1]
    [] OTHER -> st

\* EnvyState.synced
Synced(st) == st.seen_welcome

(* -------------------------------------------------------------- backoff *)

\* reconnect_initial_backoff and reconnect_max_backoff are whole seconds.
\* reconnect_jitter and the values of the random source are hundredths, and
\* the argument of a sleep is in ten-thousandths of a second.
Hundredths == 100
TenThousandths == 10000

DEFAULT_RECONNECT_INITIAL_BACKOFF == 1
DEFAULT_RECONNECT_MAX_BACKOFF == 30
DEFAULT_RECONNECT_JITTER == 20

\* The values random_func returns: 0, 0.5 and 1.
Randoms == {0, 50, 100}

Min(x, y) == IF x <= y THEN x ELSE y
Max(x, y) == IF x >= y THEN x ELSE y

\* `delay = max(0.0, self.reconnect_initial_backoff)`
InitialDelay(initial_backoff) == Max(0, initial_backoff)

\* `capped_delay = min(delay, self.reconnect_max_backoff)`
CappedDelay(delay, max_backoff) == Min(delay, max_backoff)

\* `capped_delay + capped_delay * self.reconnect_jitter * self._random()`
SleepArgument(capped_delay, jitter, random) ==
  capped_delay * TenThousandths + capped_delay * jitter * random

\* A variant of NextDelay: the delay is not doubled.
SameDelay(capped_delay, initial_backoff, max_backoff) ==
  Min(Max(capped_delay, initial_backoff), max_backoff)

\* `delay = min(max(capped_delay * 2, initial_backoff), max_backoff)`
NextDelay(capped_delay, initial_backoff, max_backoff) ==
  Min(Max(capped_delay * 2, initial_backoff), max_backoff)

(* ------------------------------------------------------------ variables *)

VARIABLES
  transport,      \* client._transport: 0 (None) or the id of a transport
  transports,     \* the transports the factory made, by id
  listen_task,    \* client._listen_task: 0 (None) or the id of a task
  tasks,          \* the listen tasks created, by id
  stopping,       \* client._stopping
  auto_reconnect, \* client.auto_reconnect
  reconnect_initial_backoff, \* client.reconnect_initial_backoff
  reconnect_max_backoff,     \* client.reconnect_max_backoff
  reconnect_jitter,          \* client.reconnect_jitter
  sync_event,     \* client._sync_event.is_set()
  state,          \* client.state
  ack_waiters,    \* client._ack_waiters: the callers whose future is queued
  waiter,         \* the ack future of each caller's current command
  command_lock,   \* client._command_lock: its holder and those waiting
  calls,          \* each application task's current API call
  n_calls,        \* history: API calls begun
  sent_order,     \* history: the callers awaiting an ack, in the order their
                  \* lines were written
  welcomed,       \* history: a Welcome was read from the transport that
                  \* client._transport refers to
  log,            \* history: the events emitted and the close() calls made
                  \* in the last step
  last,           \* history: the API call that ended in the last step
  stopped,        \* history: the stop() calls that have returned with no
                  \* start() begun since they were called
  orderly,        \* history: no start() or stop() has begun while another
                  \* start() or stop() was in progress
  limits,         \* the size of the run: the transports, listen tasks and
                  \* API calls made in it
  callbacks,      \* client._callbacks
  invoked,        \* history: the invocations of callbacks in the last step
  heard,          \* history: for each registered callback, the transports
                  \* made before it was registered and those whose
                  \* `connected` event it received
  sync_waiters,   \* the future of each task suspended in _sync_event.wait()
  timed_out,      \* history: the tasks whose wait_synced has timed out
  adapters,       \* EnvyStateAdapter._last_snapshot of each adapter
  wrapped,        \* for each closure of register_adapter_callback, the
                  \* adapter it holds, and history: the number of times it
                  \* has invoked its consumer, up to two, and whether the
                  \* adapter had no snapshot when the closure was made
  consumed,       \* history: the calls of the closures in the last step
  parsed,         \* a call of parse_message: its line and its result
  built,          \* a call of build_command: its arguments, the line built
                  \* and the tokens read back from it
  bridged,        \* a call of coordinator_payload: its snapshot and result
  updated,        \* a call of EnvyStateAdapter.update: the adapter's last
                  \* snapshot, the new one, and the deltas and events
  envy,           \* an EnvyState with the messages applied to it since its
                  \* last reset, an adapter updated from it, and the last
                  \* call of the closure that holds the adapter
  device,         \* the device at the other end of the transport: the
                  \* replies it owes for the command lines written to it,
                  \* oldest first, and history: the number of lines
                  \* written and the last line each task wrote
  link            \* history: the last of the `connected` and `disconnected`
                  \* events emitted since the client was constructed, or
                  \* "none"; "off" where the events are not followed

vars == <<transport, transports, listen_task, tasks, stopping, auto_reconnect,
          reconnect_initial_backoff, reconnect_max_backoff, reconnect_jitter,
          sync_event, state, ack_waiters, waiter, command_lock, calls,
          n_calls, sent_order, welcomed, log, last, stopped, orderly, limits,
          callbacks, invoked, heard, sync_waiters, timed_out, adapters,
          wrapped, consumed, parsed, built, bridged, updated, envy,
          device, link>>

\* The variables of the client.
client_vars ==
  <<transport, transports, listen_task, tasks, stopping, auto_reconnect,
    reconnect_initial_backoff, reconnect_max_backoff, reconnect_jitter,
    sync_event, state, ack_waiters, waiter, command_lock, calls, n_calls,
    sent_order, welcomed, log, last, stopped, orderly, limits, callbacks,
    invoked, heard, sync_waiters, timed_out, adapters, wrapped, consumed>>

NoWaiter == [st |-> "none", msg |-> None, conn |-> 0]
NoCall ==
  [op |-> "none", pc |-> "idle", wait_for_ack |-> FALSE, t |-> 0, aw |-> 0,
   outage |-> FALSE, disturbed |-> FALSE, bounded |-> FALSE,
   queue |-> <<>>, items |-> <<>>, getter |-> "none", seen |-> <<>>]
NoResult == [c |-> "", op |-> "none", outage |-> FALSE, kind |-> "none"]
NoClosure == [adapter |-> "", emissions |-> 0, fresh |-> FALSE]

\* The state as one record, for the code that runs through several methods
\* without suspending.
Cur ==
  [transport |-> transport, transports |-> transports,
   listen_task |-> listen_task, tasks |-> tasks, stopping |-> stopping,
   auto_reconnect |-> auto_reconnect, sync_event |-> sync_event,
   state |-> state, ack_waiters |-> ack_waiters, waiter |-> waiter,
   command_lock |-> command_lock, calls |-> calls, n_calls |-> n_calls,
   sent_order |-> sent_order, welcomed |-> welcomed, log |-> <<>>,
   last |-> NoResult, stopped |-> stopped, orderly |-> orderly,
   callbacks |-> callbacks, invoked |-> <<>>, heard |-> heard,
   sync_waiters |-> sync_waiters, timed_out |-> timed_out,
   adapters |-> adapters, wrapped |-> wrapped, consumed |-> <<>>]

WithinBounds(s) ==
  /\ Len(s.transports) <= limits.transports
  /\ Len(s.tasks) <= limits.tasks
  /\ s.n_calls <= limits.calls
  /\ \A c \in Callers : Len(s.calls[c].seen) <= limits.seen

\* The `connected` and `disconnected` events among the entries lg of the
\* log, in the order they were emitted.
ConnectionEvents(lg) ==
  LET es == SelectSeq(lg, LAMBDA e : e.event \in {"connected", "disconnected"})
  IN  [i \in DOMAIN es |-> es[i].event]

\* The last connection event once the events of lg were emitted after prev.
LastLink(prev, lg) ==
  LET es == ConnectionEvents(lg)
  IN  IF prev = "off" \/ es = <<>> THEN prev ELSE es[Len(es)]

\* The step ends with the client as s has it; what the device owes is
\* assigned by the step itself.
Assign(s) ==
  /\ WithinBounds(s)
  /\ link' = LastLink(link, s.log)
  /\ transport' = s.transport
  /\ transports' = s.transports
  /\ listen_task' = s.listen_task
  /\ tasks' = s.tasks
  /\ stopping' = s.stopping
  /\ auto_reconnect' = s.auto_reconnect
  /\ sync_event' = s.sync_event
  /\ state' = s.state
  /\ ack_waiters' = s.ack_waiters
  /\ waiter' = s.waiter
  /\ command_lock' = s.command_lock
  /\ calls' = s.calls
  /\ n_calls' = s.n_calls
  /\ sent_order' = s.sent_order
  /\ welcomed' = s.welcomed
  /\ log' = s.log
  /\ last' = s.last
  /\ stopped' = s.stopped
  /\ orderly' = s.orderly
  /\ callbacks' = s.callbacks
  /\ invoked' = s.invoked
  /\ heard' = s.heard
  /\ sync_waiters' = s.sync_waiters
  /\ timed_out' = s.timed_out
  /\ adapters' = s.adapters
  /\ wrapped' = s.wrapped
  /\ consumed' = s.consumed
  /\ UNCHANGED <<reconnect_initial_backoff, reconnect_max_backoff,
                 reconnect_jitter, limits, parsed, built, bridged,
                 updated, envy>>

\* A step that writes no line to the device and reads none from it.
Commit(s) == Assign(s) /\ UNCHANGED device

\* No call of the codec has been made.
NoParse == [line |-> <<>>, message |-> None, done |-> FALSE]
NoBuild ==
  [command |-> <<>>, args |-> <<>>, line |-> <<>>, tokens |-> <<>>,
   done |-> FALSE]

NoPayload == [snapshot |-> None, payload |-> None, done |-> FALSE]
NoUpdate ==
  [previous |-> None, snapshot |-> None, deltas |-> <<>>, events |-> <<>>,
   done |-> FALSE]
\* A device that owes no reply.
NoDevice ==
  [owed |-> <<>>, written |-> 0, last |-> [c \in Callers |-> 0]]

\* No EnvyState is held apart from the client's.
NoEnvy ==
  [state |-> None, applied |-> <<>>, adapter |-> None, registered |-> FALSE,
   call |-> None]
NoCodecCall ==
  /\ parsed = NoParse
  /\ built = NoBuild
  /\ bridged = NoPayload
  /\ updated = NoUpdate
  /\ envy = NoEnvy

\* The client as constructed, but for its reconnect policy.
Constructed ==
  /\ transport = 0
  /\ transports = <<>>
  /\ listen_task = 0
  /\ tasks = <<>>
  /\ stopping = FALSE
  /\ auto_reconnect \in BOOLEAN
  /\ sync_event = FALSE
  /\ state = InitialState
  /\ ack_waiters = <<>>
  /\ waiter = [c \in Callers |-> NoWaiter]
  /\ command_lock = [holder |-> "", waiters |-> <<>>]
  /\ calls = [c \in Callers |-> NoCall]
  /\ n_calls = 0
  /\ sent_order = <<>>
  /\ welcomed = FALSE
  /\ log = <<>>
  /\ last = NoResult
  /\ stopped = 0
  /\ orderly = TRUE
  /\ callbacks = {}
  /\ invoked = <<>>
  /\ heard = [k \in AllCallbacks |-> {}]
  /\ sync_waiters = [c \in Callers |-> "none"]
  /\ timed_out = {}
  /\ adapters = [ad \in Adapters |-> None]
  /\ wrapped = [w \in Wrapped |-> NoClosure]
  /\ consumed = <<>>

Init ==
  /\ Constructed
  /\ device = NoDevice
  /\ link = "off"
  /\ NoCodecCall
  /\ reconnect_initial_backoff = DEFAULT_RECONNECT_INITIAL_BACKOFF
  /\ reconnect_max_backoff = DEFAULT_RECONNECT_MAX_BACKOFF
  /\ reconnect_jitter = DEFAULT_RECONNECT_JITTER
  /\ limits = [transports |-> MaxTransports, tasks |-> MaxTasks,
               calls |-> MaxCalls, seen |-> 0]

(* ----------------------------------------------------------- transports *)

\* A transport as the factory returns it: its `connected` is false, and
\* connect() is called on it (client.py line 332-333).
NewTransport == [connected |-> FALSE]

\* An entry of the log of a step.
LogEntry(s, event, t) ==
  [event |-> event, t |-> t, state |-> s.state, sync_event |-> s.sync_event]

\* Transport.connect() returning: the transport is connected.
TransportConnected(s, t) == [s EXCEPT !.transports[t].connected = TRUE]

\* Transport.connect() raising ConnectionFailed / ConnectionTimeout.
TransportFailed(s, t) == [s EXCEPT !.transports[t].connected = FALSE]

\* Transport.close() called.
TransportClose(s, t) ==
  [s EXCEPT !.transports[t].connected = FALSE,
            !.log = Append(@, LogEntry(s, "close", t))]

\* MadvrEnvyClient.connected
Connected(s) == s.transport # 0 /\ s.transports[s.transport].connected

\* Some task is suspended in close() of transport t.
ClosePending(t) ==
  \/ \E l \in DOMAIN tasks : tasks[l].pc = "close" /\ tasks[l].t = t
  \/ \E c \in Callers : calls[c].pc = "close" /\ calls[c].t = t

\* What an operation in flight on transport t can still deliver: the
\* transport is connected, or its close() has been called and not returned.
Deliverable(t) == transports[t].connected \/ ClosePending(t)

(* -------------------------------------------------------- state adapter *)

\* An EnvySnapshot of a device that has sent its signal and ratio lines or
\* not, with no page, profile or option, nothing done last and the counters
\* at zero.
EnvySnapshot(synced, is_on, standby, incoming_signal, outgoing_signal, aspect_ratio, masking_ratio) ==
  [synced |-> synced, version |-> None, is_on |-> is_on,
   standby |-> standby, signal_present |-> None, mac_address |-> None,
   active_profile_group |-> None, active_profile_index |-> None,
   current_menu |-> None, aspect_ratio_mode |-> None,
   incoming_signal |-> incoming_signal, outgoing_signal |-> outgoing_signal,
   aspect_ratio |-> aspect_ratio, masking_ratio |-> masking_ratio,
   tone_map_enabled |-> None, temperatures |-> None,
   settings_pages |-> <<>>, config_pages |-> <<>>, profile_groups |-> <<>>,
   profiles |-> <<>>, options |-> <<>>,
   last_system_action |-> None, last_button_event |-> None,
   last_inherit_option_path |-> None,
   last_inherit_option_effective |-> None, last_uploaded_3dlut |-> None,
   last_renamed_3dlut |-> None, last_deleted_3dlut |-> None,
   last_store_settings |-> None, last_restore_settings |-> None,
   temporary_reset_count |-> 0, display_changed_count |-> 0,
   settings_upload_count |-> 0]

\* fields(EnvySnapshot), in the order of the dataclass.
SnapshotFields ==
  <<"synced", "version", "is_on", "standby", "signal_present",
    "mac_address", "active_profile_group", "active_profile_index",
    "current_menu", "aspect_ratio_mode", "incoming_signal",
    "outgoing_signal", "aspect_ratio", "masking_ratio", "tone_map_enabled",
    "temperatures", "settings_pages", "config_pages", "profile_groups",
    "profiles", "options", "last_system_action", "last_button_event",
    "last_inherit_option_path", "last_inherit_option_effective",
    "last_uploaded_3dlut", "last_renamed_3dlut", "last_deleted_3dlut",
    "last_store_settings", "last_restore_settings",
    "temporary_reset_count", "display_changed_count",
    "settings_upload_count">>

RECURSIVE DeltasFrom(_, _, _)
DeltasFrom(previous, current, i) ==
  IF i > Len(SnapshotFields) THEN <<>>
  ELSE LET name == SnapshotFields[i] IN
       (IF previous[name] # current[name]
        THEN <<[field |-> name, old |-> previous[name],
                new |-> current[name]]>>
        ELSE <<>>)
         \o DeltasFrom(previous, current, i + 1)

build_deltas(previous, current) == DeltasFrom(previous, current, 1)

AdapterEvent(kind, payload) == [kind |-> kind, payload |-> payload]

\* _counter_event with an event for every change of the counter.
CounterEventOnChange(kind, previous, current, field_name) ==
  LET old_value == previous[field_name]
      new_value == current[field_name]
  IN  IF new_value = old_value THEN None
      ELSE Some(AdapterEvent(kind, [count |-> new_value,
                                    increment |-> new_value - old_value]))

counter_event(kind, previous, current, field_name) ==
  LET old_value == previous[field_name]
      new_value == current[field_name]
  IN  IF new_value <= old_value THEN None
      ELSE Some(AdapterEvent(kind, [count |-> new_value,
                                    increment |-> new_value - old_value]))

\* The values of the last_* fields are optional: new_value is None, or the
\* event carries the value itself.
change_event(kind, old_value, new_value, payload_key) ==
  IF new_value = None \/ new_value = old_value THEN None
  ELSE Some(AdapterEvent(kind, payload_key :> new_value[1]))

\* The events that are not None, in the order of the tuple.
build_events(previous, current) ==
  counter_event("temporary_reset", previous, current,
                "temporary_reset_count")
    \o counter_event("display_changed", previous, current,
                     "display_changed_count")
    \o counter_event("settings_uploaded", previous, current,
                     "settings_upload_count")
    \o change_event("system_action", previous.last_system_action,
                    current.last_system_action, "action")
    \o change_event("button", previous.last_button_event,
                    current.last_button_event, "button")
    \o change_event("option_inherited", previous.last_inherit_option_path,
                    current.last_inherit_option_path, "path")
    \o change_event("lut_uploaded", previous.last_uploaded_3dlut,
                    current.last_uploaded_3dlut, "filename")
    \o change_event("lut_renamed", previous.last_renamed_3dlut,
                    current.last_renamed_3dlut, "rename")
    \o change_event("lut_deleted", previous.last_deleted_3dlut,
                    current.last_deleted_3dlut, "filename")
    \o change_event("settings_stored", previous.last_store_settings,
                    current.last_store_settings, "store")
    \o change_event("settings_restored", previous.last_restore_settings,
                    current.last_restore_settings, "target")

\* EnvyStateAdapter.update once the snapshot is taken: previous is the
\* adapter's _last_snapshot, None or Some of a snapshot.  The snapshot is
\* the adapter's _last_snapshot afterwards.
AdapterUpdate(previous, snapshot) ==
  IF previous = None
  THEN [snapshot |-> snapshot, deltas |-> <<>>, events |-> <<>>]
  ELSE [snapshot |-> snapshot,
        deltas |-> build_deltas(previous[1], snapshot),
        events |-> build_events(previous[1], snapshot)]

(* ----------------------------------------------------------- supervisor *)

\* tuple(self._callbacks)
Snapshot(s) == SelectSeq(CallbackOrder, LAMBDA k : k \in s.callbacks)

\* callback(event, message) as the callback sees it: the event and the
\* client at that moment; t is the transport the event is about.
Invocation(s, k, event, message, t) ==
  [callback |-> k, event |-> event, message |-> message, t |-> t,
   state |-> s.state, sync_event |-> s.sync_event,
   ack_waiters |-> s.ack_waiters, waiter |-> s.waiter,
   registered |-> k \in s.callbacks]

\* A variant of Invoked: the loop ends when a callback raises.
InvokedUntilRaise(s) ==
  LET ks == Snapshot(s)
      raised(i) == \E j \in 1..(i - 1) : Raises(ks[j])
  IN  SelectSeq(ks, LAMBDA k : ~raised(CHOOSE i \in DOMAIN ks : ks[i] = k))

\* The callbacks the loop of _emit invokes, in order: an exception a
\* callback raises is logged and the loop goes on.
Invoked(s) == Snapshot(s)

\* on_message of _collect_enumeration, on the call it belongs to:
\* Queue.put_nowait wakes the getter.
OnMessageCall(call, event, message) ==
  IF event # "received_message" \/ message = None THEN call
  ELSE IF message[1].type \in {ItemType, EndType}
  THEN [call EXCEPT !.queue = Append(@, message[1]),
                    !.getter = IF @ = "pending" THEN "result" ELSE @]
  ELSE call

\* snapshot_from_state, of the fields of EnvyState above; the other fields
\* are those of a state as constructed.
snapshot_from_state(st) ==
  [EnvySnapshot(Synced(st), st.is_on, st.standby, None, None, None, None)
     EXCEPT !.version = st.version,
            !.temporary_reset_count = st.temporary_reset_count]

\* A call of the closure w: whether it ran adapter.update and what that
\* returned, and whether it invoked the consumer and with which events.
ClosureCall(s, w, event, ran, result, called, events) ==
  [s EXCEPT
     !.consumed = Append(@, [w |-> w, event |-> event, ran |-> ran,
                             deltas |-> result.deltas,
                             yielded |-> result.events,
                             called |-> called, events |-> events,
                             before |-> s.wrapped[w].emissions]),
     !.wrapped[w].emissions = IF called THEN Min(@ + 1, 2) ELSE @]

\* A variant of Suppressed: an update without events is not passed on.
SuppressedWithoutEvents(result) == result.events = <<>>

\* `not deltas and not events`
Suppressed(result) == result.deltas = <<>> /\ result.events = <<>>

\* A variant of IsInitial: no update is taken for the first.
NeverInitial(s, w) == FALSE

\* `adapter.last_snapshot is None`
IsInitial(s, w) == s.adapters[s.wrapped[w].adapter] = None

\* wrapped of register_adapter_callback.  The consumer changes nothing in
\* the client.
WrappedCall(s, w, event, message) ==
  IF event # "received_message" \/ message = None
  THEN ClosureCall(s, w, event, FALSE, [deltas |-> <<>>, events |-> <<>>],
                   FALSE, <<>>)
  ELSE LET adapter == s.wrapped[w].adapter
           initial == IsInitial(s, w)
           result == AdapterUpdate(s.adapters[adapter],
                                   snapshot_from_state(s.state))
           s1 == [s EXCEPT !.adapters[adapter] = Some(result.snapshot)]
       IN  IF initial
           THEN ClosureCall(s1, w, event, TRUE, result, TRUE,
                            <<AdapterEvent("initial", <<>>)>>
                              \o result.events)
           ELSE IF Suppressed(result)
           THEN ClosureCall(s1, w, event, TRUE, result, FALSE, <<>>)
           ELSE ClosureCall(s1, w, event, TRUE, result, TRUE, result.events)

\* MadvrEnvyClient.register_callback
RegisterCallback(s, k) ==
  [s EXCEPT !.callbacks = @ \cup {k},
            !.heard[k] = IF k \in s.callbacks THEN @
                         ELSE DOMAIN s.transports]

\* A variant of DeregisterCallback: the callback stays in the set.
DiscardNothing(s, k) == s

\* MadvrEnvyClient.deregister_callback
DeregisterCallback(s, k) ==
  [s EXCEPT !.callbacks = @ \ {k}, !.heard[k] = {}]

\* callback(event, message) in the loop of _emit: k1 and k2 change nothing
\* in the client.
Call(s, k, event, message, t) ==
  LET s1 == [s EXCEPT
               !.invoked = Append(@, Invocation(s, k, event, message, t)),
               !.heard[k] = IF event = "connected" THEN @ \cup {t} ELSE @]
  IN  IF k = Deregisterer THEN DeregisterCallback(s1, "k2")
      ELSE IF k \in Wrapped THEN WrappedCall(s1, k, event, message)
      ELSE IF \E c \in Callers : k = OnMessage(c)
      THEN LET c == CHOOSE c \in Callers : k = OnMessage(c)
           IN  [s1 EXCEPT !.calls[c] = OnMessageCall(@, event, message)]
      ELSE s1

RECURSIVE EmitFrom(_, _, _, _, _, _)
EmitFrom(s, ks, i, event, message, t) ==
  IF i > Len(ks) THEN s
  ELSE EmitFrom(Call(s, ks[i], event, message, t), ks, i + 1, event,
                message, t)

\* MadvrEnvyClient._emit; t is the transport the event is about.
Emit(s, event, message, t) ==
  LET s0 == IF event \in {"connected", "disconnected"}
            THEN [s EXCEPT !.log = Append(@, LogEntry(s, event, t))]
            ELSE s
  IN  EmitFrom(s0, Invoked(s), 1, event, message, t)

\* MadvrEnvyClient._connect when not connected, up to its await of connect().
Connect(s) ==
  [s EXCEPT !.sync_event = FALSE,
            !.state = ResetRuntimeValues(@),
            !.transports = Append(@, NewTransport),
            !.transport = Len(s.transports) + 1,
            !.welcomed = FALSE]

\* A variant of ConnectDone: the `connected` event is not emitted.
ConnectSilently(s, t) == TransportConnected(s, t)

\* MadvrEnvyClient._connect after connect() returned.
ConnectDone(s, t) == Emit(TransportConnected(s, t), "connected", None, t)

\* A variant of FailAckWaiters: the loop over the waiters is left out.
SkipFailAckWaiters(s) == s

\* The loop of _disconnect_statefully that fails the outstanding waiters.
FailAckWaiters(s) ==
  [s EXCEPT !.waiter =
              [c \in Callers |->
                 IF (\E i \in DOMAIN s.ack_waiters : s.ack_waiters[i] = c)
                    /\ s.waiter[c].st = "pending"
                 THEN [s.waiter[c] EXCEPT !.st = "exception"]
                 ELSE s.waiter[c]],
            !.ack_waiters = <<>>]

\* A variant of DisconnectStatefully: `self._transport = None` is left out.
DisconnectKeepingTransport(s) ==
  LET t == s.transport
      s1 == FailAckWaiters([s EXCEPT !.sync_event = FALSE,
                                     !.state = ResetRuntimeValues(@),
                                     !.welcomed = FALSE])
  IN  IF t = 0 THEN s1 ELSE TransportClose(s1, t)

\* MadvrEnvyClient._disconnect_statefully up to its await of close(), or to
\* its return when there is no transport.
DisconnectStatefully(s) ==
  LET t == s.transport
      s1 == FailAckWaiters([s EXCEPT !.transport = 0,
                                     !.sync_event = FALSE,
                                     !.state = ResetRuntimeValues(@),
                                     !.welcomed = FALSE])
  IN  IF t = 0 THEN s1 ELSE TransportClose(s1, t)

\* MadvrEnvyClient._resolve_ack_waiter
ResolveAckWaiter(s, m) ==
  IF m.type \notin {"Ok", "Error"} THEN s
  ELSE IF s.ack_waiters = <<>> THEN s
  ELSE LET w == Head(s.ack_waiters)
       IN  [s EXCEPT !.ack_waiters = Tail(@),
                     !.waiter[w] =
                        IF @.st = "pending"
                        THEN [@ EXCEPT !.st = "result", !.msg = Some(m)]
                        ELSE @]

(* --------------------------------------------------------- listen tasks *)

\* A listen task as asyncio.create_task returns it.  delay and capped_delay
\* are the locals of _attempt_reconnect_until_success; sleeps is history:
\* the sleeps of the reconnect episode in progress.
NewTask ==
  [pc |-> "created", t |-> 0, cancel |-> FALSE, delay |-> 0,
   capped_delay |-> 0, sleeps |-> 0]

SetTask(s, l, pc, t) == [s EXCEPT !.tasks[l].pc = pc, !.tasks[l].t = t]

\* The listen task returns.
Finish(s, l) == [s EXCEPT !.tasks[l] = [NewTask EXCEPT !.pc = "done"]]

\* _attempt_reconnect_until_success returns: its locals are gone.
EndReconnect(s, l) ==
  [s EXCEPT !.tasks[l].delay = 0, !.tasks[l].capped_delay = 0,
            !.tasks[l].sleeps = 0]

\* The while loop of _attempt_reconnect_until_success from its head to the
\* next suspension; _connect returns at once when the client is connected.
ReconnectLoop(s, l) ==
  IF s.stopping \/ ~s.auto_reconnect THEN Finish(s, l)
  ELSE IF Connected(s)
  THEN SetTask(EndReconnect(s, l), l, "read_line", s.transport)
  ELSE LET s1 == Connect(s) IN SetTask(s1, l, "connect", s1.transport)

\* MadvrEnvyClient._attempt_reconnect_until_success from its entry to the
\* next suspension.
AttemptReconnect(s, l) ==
  IF s.stopping \/ ~s.auto_reconnect THEN Finish(s, l)
  ELSE ReconnectLoop(
         [s EXCEPT !.tasks[l].delay = InitialDelay(reconnect_initial_backoff),
                   !.tasks[l].sleeps = 0], l)

\* The handler of ConnectionFailedError / ConnectionTimeoutError up to its
\* await of the sleep; random is what random_func returned.
Backoff(s, l, random) ==
  LET capped_delay == CappedDelay(s.tasks[l].delay, reconnect_max_backoff)
      seconds == SleepArgument(capped_delay, reconnect_jitter, random)
  IN  [s EXCEPT !.tasks[l].pc = "sleep", !.tasks[l].t = 0,
                !.tasks[l].capped_delay = capped_delay,
                !.tasks[l].sleeps = @ + 1,
                !.log = Append(@, [event |-> "sleep", seconds |-> seconds])]

\* The handler after the sleep: the delay is doubled, capped and floored.
AfterSleep(s, l) ==
  [s EXCEPT !.tasks[l].delay =
              NextDelay(s.tasks[l].capped_delay, reconnect_initial_backoff,
                        reconnect_max_backoff),
            !.tasks[l].capped_delay = 0]

\* The handler of NotConnectedError / OSError in _listen_loop.
HandleReadError(s, l) ==
  LET t == s.transport
      s1 == DisconnectStatefully(s)
  IN  IF t = 0 THEN AttemptReconnect(s1, l) ELSE SetTask(s1, l, "close", t)

\* MadvrEnvyClient._listen_loop from the head of its while loop to the next
\* suspension; _read_line raises NotConnectedError without suspending when
\* there is no connected transport.
ListenLoop(s, l) ==
  IF s.stopping THEN Finish(s, l)
  ELSE IF Connected(s) THEN SetTask(s, l, "read_line", s.transport)
  ELSE HandleReadError(s, l)

\* A variant of SetSyncEvent: the waiting tasks are not woken.
SetWithoutWake(s) == [s EXCEPT !.sync_event = TRUE]

\* asyncio.Event.set: the future of every waiting task gets its result.
SetSyncEvent(s) ==
  [s EXCEPT !.sync_event = TRUE,
            !.sync_waiters = [c \in Callers |->
                                IF @[c] = "pending" THEN "result" ELSE @[c]]]

\* History: the message is one read while the enumeration of a task had
\* its callback registered.
Observe(s, m) ==
  [s EXCEPT !.calls = [c \in Callers |->
                         IF OnMessage(c) \in s.callbacks
                         THEN [@[c] EXCEPT !.seen = Append(@, m)]
                         ELSE @[c]]]

\* A variant of HandleLine: a message that is Unknown is not emitted.
HandleKnownLine(s, line, t) ==
  LET m == ParseMessage(line)
      s1 == [Observe(s, m) EXCEPT
               !.state = Apply(@, m),
               !.welcomed = @ \/ (m.type = "Welcome" /\ t = s.transport)]
      s2 == ResolveAckWaiter(s1, m)
      s3 == IF m.type = "Unknown" THEN s2
            ELSE Emit(s2, "received_message", Some(m), t)
  IN  IF Synced(s3.state) /\ ~s3.sync_event
      THEN SetSyncEvent(s3)
      ELSE s3

\* The body of the loop for one line read from transport t.
HandleLine(s, line, t) ==
  LET m == ParseMessage(line)
      s1 == [Observe(s, m) EXCEPT
               !.state = Apply(@, m),
               !.welcomed = @ \/ (m.type = "Welcome" /\ t = s.transport)]
      s2 == ResolveAckWaiter(s1, m)
      s3 == Emit(s2, "received_message", Some(m), t)
  IN  IF Synced(s3.state) /\ ~s3.sync_event
      THEN SetSyncEvent(s3)
      ELSE s3

Runnable(l) == l \in DOMAIN tasks /\ tasks[l].pc # "done" /\ ~tasks[l].cancel

ListenBegin(l) ==
  /\ Runnable(l) /\ tasks[l].pc = "created"
  /\ Commit(ListenLoop(Cur, l))

ListenReadLine(l, line) ==
  /\ Runnable(l) /\ tasks[l].pc = "read_line"
  /\ Deliverable(tasks[l].t)
  /\ Commit(ListenLoop(HandleLine(Cur, line, tasks[l].t), l))

\* A variant of HandleReadTimeout: the timeout is handled as a read error.
TimeoutAsDisconnect(s, l) == HandleReadError(s, l)

\* `except TimeoutError: continue`
HandleReadTimeout(s, l) == ListenLoop(s, l)

ListenReadTimeout(l) ==
  /\ Runnable(l) /\ tasks[l].pc = "read_line"
  /\ transports[tasks[l].t].connected
  /\ Commit(HandleReadTimeout(Cur, l))

ListenReadError(l) ==
  /\ Runnable(l) /\ tasks[l].pc = "read_line"
  /\ Commit(HandleReadError(Cur, l))

ListenCloseDone(l) ==
  /\ Runnable(l) /\ tasks[l].pc = "close"
  /\ Commit(AttemptReconnect(Emit(Cur, "disconnected", None, tasks[l].t), l))

ListenConnectOk(l) ==
  /\ Runnable(l) /\ tasks[l].pc = "connect"
  /\ Commit(ListenLoop(EndReconnect(ConnectDone(Cur, tasks[l].t), l), l))

ListenConnectFail(l, random) ==
  /\ Runnable(l) /\ tasks[l].pc = "connect"
  /\ Commit(Backoff(TransportFailed(Cur, tasks[l].t), l, random))

ListenWake(l) ==
  /\ Runnable(l) /\ tasks[l].pc = "sleep"
  /\ Commit(ReconnectLoop(AfterSleep(Cur, l), l))

\* The CancelledError of stop()'s cancel() reaches the task where it waits.
ListenCancelled(l) ==
  /\ l \in DOMAIN tasks /\ tasks[l].pc # "done" /\ tasks[l].cancel
  /\ Commit(Finish(Cur, l))


(* ---------------------------------------------------- application tasks *)

Idle(c) == calls[c].pc = "idle"

\* An application task calls an API method.
NewCall(s, c, op, w) ==
  [s EXCEPT !.n_calls = @ + 1,
            !.calls[c] = [NoCall EXCEPT !.op = op, !.pc = "run",
                                        !.wait_for_ack = w]]

\* A start() or stop() of another task is in progress.
LifecycleCallInProgress(s, c) ==
  \E d \in Callers \ {c} :
    s.calls[d].op \in {"start", "stop"}

\* An application task calls start() or stop(): the history of the calls.
NewLifecycleCall(s, c, op) ==
  LET s1 == [s EXCEPT !.orderly = @ /\ ~LifecycleCallInProgress(s, c)]
      s2 == IF op = "start"
            THEN [s1 EXCEPT !.stopped = 0,
                            !.calls = [d \in Callers |->
                                         IF s.calls[d].op = "stop"
                                         THEN [s.calls[d] EXCEPT !.disturbed = TRUE]
                                         ELSE s.calls[d]]]
            ELSE s1
  IN  NewCall(s2, c, op, FALSE)

\* The call ends: its future is dropped with it.
EndCall(s, c, result) ==
  [s EXCEPT !.calls[c] = NoCall,
            !.waiter[c] = NoWaiter,
            !.sent_order = SelectSeq(@, LAMBDA x : x # c),
            !.last = [c |-> c, op |-> s.calls[c].op,
                      outage |-> s.calls[c].outage] @@ result]

Return(s, c, value) == EndCall(s, c, [kind |-> "returned", value |-> value])

Raise(s, c, exc) == EndCall(s, c, [kind |-> "raised"] @@ exc)

NotConnectedError == [exc |-> "NotConnectedError"]
AttributeError == [exc |-> "AttributeError"]
ConnectionFailedError == [exc |-> "ConnectionFailedError"]
SendError == [exc |-> "OSError"]
AckTimeoutError == [exc |-> "TimeoutError"]
CommandRejectedError(command, error) ==
  [exc |-> "CommandRejectedError", command |-> command, error |-> error]

(* callbacks *)

\* An application task registers a callback.
Register(k) ==
  /\ k \notin callbacks
  /\ Commit(RegisterCallback(Cur, k))

\* An application task deregisters a callback.
Deregister(k) ==
  /\ k \in callbacks
  /\ Commit(DeregisterCallback(Cur, k))

(* start *)

\* The guard of start(): a listen task exists and is not done.
ListenTaskRunning(s) ==
  s.listen_task # 0 /\ s.tasks[s.listen_task].pc # "done"

\* asyncio.create_task(self._listen_loop()) and its assignment.
SpawnListen(s) ==
  [s EXCEPT !.tasks = Append(@, NewTask),
            !.listen_task = Len(s.tasks) + 1]

\* A variant of Start: the check of the running listen task is left out.
StartUnguarded(s, c) ==
  LET s1 == [s EXCEPT !.stopping = FALSE]
  IN  IF Connected(s1) THEN Return(SpawnListen(s1), c, None)
      ELSE LET s2 == Connect(s1)
           IN  [s2 EXCEPT !.calls[c].pc = "connect",
                          !.calls[c].t = s2.transport]

\* MadvrEnvyClient.start up to its first suspension.
Start(s, c) ==
  IF ListenTaskRunning(s) THEN Return(s, c, None)
  ELSE LET s1 == [s EXCEPT !.stopping = FALSE]
       IN  IF Connected(s1) THEN Return(SpawnListen(s1), c, None)
           ELSE LET s2 == Connect(s1)
                IN  [s2 EXCEPT !.calls[c].pc = "connect",
                               !.calls[c].t = s2.transport]

BeginStart(c) ==
  /\ Idle(c)
  /\ Commit(Start(NewLifecycleCall(Cur, c, "start"), c))

StartConnectOk(c) ==
  /\ calls[c].op = "start" /\ calls[c].pc = "connect"
  /\ Commit(Return(SpawnListen(ConnectDone(Cur, calls[c].t)), c, None))

StartConnectFail(c) ==
  /\ calls[c].op = "start" /\ calls[c].pc = "connect"
  /\ Commit(Raise(TransportFailed(Cur, calls[c].t), c, ConnectionFailedError))

(* stop *)

\* Task.cancel()
Cancel(s, l) ==
  IF s.tasks[l].pc = "done" THEN s ELSE [s EXCEPT !.tasks[l].cancel = TRUE]

ReturnStop(s, c) ==
  [Return(s, c, None) EXCEPT
     !.stopped = IF s.calls[c].disturbed THEN @ ELSE @ + 1]

\* The end of stop(): _disconnect_statefully up to its await of close().
StopDisconnect(s, c) ==
  LET t == s.transport
      s1 == DisconnectStatefully(s)
  IN  IF t = 0 THEN ReturnStop(s1, c)
      ELSE [s1 EXCEPT !.calls[c].pc = "close", !.calls[c].t = t]

\* MadvrEnvyClient.stop up to its first suspension.
Stop(s, c) ==
  LET s1 == [s EXCEPT !.stopping = TRUE]
  IN  IF s1.listen_task = 0 THEN StopDisconnect(s1, c)
      ELSE LET l == s1.listen_task
               s2 == Cancel(s1, l)
           IN  IF s2.tasks[l].pc = "done"
               THEN StopDisconnect([s2 EXCEPT !.listen_task = 0], c)
               ELSE [s2 EXCEPT !.calls[c].pc = "await_task", !.calls[c].aw = l]

BeginStop(c) ==
  /\ Idle(c)
  /\ Commit(Stop(NewLifecycleCall(Cur, c, "stop"), c))

\* The awaited listen task is done: stop() goes on.
StopResume(c) ==
  /\ calls[c].op = "stop" /\ calls[c].pc = "await_task"
  /\ tasks[calls[c].aw].pc = "done"
  /\ Commit(StopDisconnect([Cur EXCEPT !.listen_task = 0], c))

StopCloseDone(c) ==
  /\ calls[c].op = "stop" /\ calls[c].pc = "close"
  /\ Commit(ReturnStop(Emit(Cur, "disconnected", None, calls[c].t), c))

(* command *)

\* asyncio.Lock.release: the lock goes to the longest waiting task.
Release(s) ==
  IF s.command_lock.waiters = <<>>
  THEN [s EXCEPT !.command_lock.holder = ""]
  ELSE [s EXCEPT !.command_lock = [holder |-> Head(@.waiters),
                                   waiters |-> Tail(@.waiters)]]

\* A variant of RemoveWaiter: the waiter stays in the queue.
KeepWaiter(s, c) == s

\* `if waiter in self._ack_waiters: self._ack_waiters.remove(waiter)`
RemoveWaiter(s, c) ==
  [s EXCEPT !.ack_waiters = SelectSeq(@, LAMBDA x : x # c)]

\* A variant of Enqueue: the waiter is put at the head of the queue.
EnqueueFront(s, c) ==
  [s EXCEPT !.ack_waiters = <<c>> \o @,
            !.waiter[c] = [NoWaiter EXCEPT !.st = "pending",
                                           !.conn = s.transport]]

\* The waiter is created and appended.
Enqueue(s, c) ==
  [s EXCEPT !.ack_waiters = Append(@, c),
            !.waiter[c] = [NoWaiter EXCEPT !.st = "pending",
                                           !.conn = s.transport]]

\* The line the call of task c sends.
LineOf(s, c) ==
  IF s.calls[c].op = "enum" THEN EnumCommandLine ELSE CommandLine(c)

EnumerationTimeoutError(command, item_type, end_type, items_collected) ==
  [exc |-> "EnumerationTimeoutError", command |-> command,
   item_type |-> item_type, end_type |-> end_type,
   items_collected |-> items_collected]

\* A variant of EnumRaise: the callback stays registered.
RaiseRegistered(s, c, exc) == Raise(s, c, exc)

\* _collect_enumeration is left with an exception: its finally clause
\* deregisters on_message.
EnumRaise(s, c, exc) == Raise(DeregisterCallback(s, OnMessage(c)), c, exc)

\* _collect_enumeration returns the items: its finally clause deregisters
\* on_message.
EnumReturn(s, c, items) ==
  Return(DeregisterCallback(s, OnMessage(c)), c, items)

\* A variant of Collect: the end marker is appended as an item is.
RECURSIVE CollectThroughEnd(_, _)
CollectThroughEnd(s, c) ==
  LET q == s.calls[c].queue
  IN  IF q = <<>>
      THEN IF s.calls[c].items # <<>> /\ s.calls[c].items[Len(s.calls[c].items)].type = EndType
           THEN EnumReturn(s, c, s.calls[c].items)
           ELSE [s EXCEPT !.calls[c].pc = "enum_wait",
                          !.calls[c].getter = "pending"]
      ELSE CollectThroughEnd([s EXCEPT !.calls[c].queue = Tail(q),
                                       !.calls[c].items = Append(@, Head(q))], c)

\* The while loop of _collect_enumeration up to its suspension in
\* queue.get(), which returns at once while the queue is not empty.
RECURSIVE Collect(_, _)
Collect(s, c) ==
  LET q == s.calls[c].queue
      s1 == [s EXCEPT !.calls[c].queue = Tail(q)]
  IN  IF q = <<>>
      THEN [s EXCEPT !.calls[c].pc = "enum_wait",
                     !.calls[c].getter = "pending"]
      ELSE IF Head(q).type = EndType
      THEN EnumReturn(s1, c, s1.calls[c].items)
      ELSE IF Head(q).type = ItemType
      THEN Collect([s1 EXCEPT !.calls[c].items = Append(@, Head(q))], c)
      ELSE Collect(s1, c)

\* _command raises exc to its caller.
CommandRaise(s, c, exc) ==
  IF s.calls[c].op = "enum" THEN EnumRaise(s, c, exc) ELSE Raise(s, c, exc)

\* _command returns to its caller.
CommandReturn(s, c, value) ==
  IF s.calls[c].op = "enum" THEN Collect(s, c) ELSE Return(s, c, value)

\* MadvrEnvyClient._command inside the command lock, up to the suspension
\* in send_line.  outage is history: the send was attempted without a
\* connected transport.
CommandLocked(s, c) ==
  LET s1 == IF s.calls[c].wait_for_ack THEN Enqueue(s, c) ELSE s
      s2 == [s1 EXCEPT !.calls[c].outage = ~Connected(s)]
  IN  IF s.transport = 0
      THEN CommandRaise(Release(RemoveWaiter(s2, c)), c, AttributeError)
      ELSE IF ~Connected(s)
      THEN CommandRaise(Release(RemoveWaiter(s2, c)), c, NotConnectedError)
      ELSE [s2 EXCEPT !.calls[c].pc = "send_line", !.calls[c].t = s.transport]

\* MadvrEnvyClient._command up to its first suspension.
Command(s, c) ==
  IF s.transport = 0
  THEN CommandRaise([s EXCEPT !.calls[c].outage = TRUE], c,
                    NotConnectedError)
  ELSE IF s.command_lock.holder = ""
  THEN CommandLocked([s EXCEPT !.command_lock.holder = c], c)
  ELSE [s EXCEPT !.command_lock.waiters = Append(@, c),
                 !.calls[c].pc = "lock"]

\* The end of _command: the ack future is done.
AckDone(s, c) ==
  LET f == s.waiter[c]
  IN  CASE f.st = "result" ->
             IF f.msg[1].type = "Error"
             THEN CommandRaise(s, c, CommandRejectedError(LineOf(s, c),
                                                          f.msg[1].error))
             ELSE CommandReturn(s, c, f.msg)
        [] f.st = "exception" -> CommandRaise(s, c, NotConnectedError)
        [] f.st = "cancelled" ->
             CommandRaise(RemoveWaiter(s, c), c, AckTimeoutError)

BeginCommand(c, w) ==
  /\ Idle(c)
  /\ Commit(Command([NewCall(Cur, c, "command", w)
                       EXCEPT !.waiter[c] = NoWaiter], c))

CommandAcquired(c) ==
  /\ calls[c].pc = "lock" /\ command_lock.holder = c
  /\ Commit(CommandLocked(Cur, c))

\* _command after send_line returned: the lock is released, and the call
\* returns None or goes on to wait for its ack.
SendLineDone(s, c) ==
  LET s1 == Release([s EXCEPT !.sent_order = Append(@, c)])
  IN  IF s.calls[c].wait_for_ack
      THEN [s1 EXCEPT !.calls[c].pc = "ack_wait"]
      ELSE CommandReturn(s1, c, None)

SendLineOk(c) ==
  /\ calls[c].pc = "send_line"
  /\ Deliverable(calls[c].t)
  /\ Commit(SendLineDone(Cur, c))

\* The exception send_line raises in the call of task c.  wait_for_ack is
\* history: the call had enqueued a waiter.
SendFailure(s, c) == SendError @@ [wait_for_ack |-> s.calls[c].wait_for_ack]

SendLineFail(c) ==
  /\ calls[c].pc = "send_line"
  /\ Commit(CommandRaise(Release(RemoveWaiter(Cur, c)), c,
                         SendFailure(Cur, c)))

\* The timeout of asyncio.wait_for expires: the future is cancelled, and
\* the caller resumes later.
AckTimeout(c) ==
  /\ calls[c].pc = "ack_wait" /\ waiter[c].st = "pending"
  /\ Commit([Cur EXCEPT !.waiter[c].st = "cancelled"])

AckResume(c) ==
  /\ calls[c].pc = "ack_wait" /\ waiter[c].st # "pending"
  /\ Commit(AckDone(Cur, c))

(* _collect_enumeration *)

\* _collect_enumeration up to its first suspension.
CollectEnumeration(s, c) == Command(RegisterCallback(s, OnMessage(c)), c)

\* A variant of ItemsCollected: the messages read during the call.
MessagesSeen(call) == Len(call.seen)

\* len(items)
ItemsCollected(call) == Len(call.items)

\* The end of a queue.get() that suspended.
GetDone(s, c) ==
  IF s.calls[c].getter = "cancelled"
  THEN EnumRaise(s, c, EnumerationTimeoutError(EnumCommandLine,
                                               TypeName(ItemType),
                                               TypeName(EndType),
                                               ItemsCollected(s.calls[c])))
  ELSE Collect([s EXCEPT !.calls[c].getter = "none"], c)

\* The task that called the enumeration is cancelled while suspended in it:
\* CancelledError passes through _command, where no handler catches it and
\* the lock is released, and through the finally clause; the task is over.
Cancelled(s, c) ==
  LET pc == s.calls[c].pc
      s1 == CASE pc = "lock" ->
                   IF s.command_lock.holder = c THEN Release(s)
                   ELSE [s EXCEPT !.command_lock.waiters =
                                     SelectSeq(@, LAMBDA x : x # c)]
              [] pc = "send_line" -> Release(s)
              [] pc = "ack_wait" ->
                   [s EXCEPT !.waiter[c].st =
                               IF @ = "pending" THEN "cancelled" ELSE @]
              [] OTHER -> s
      s2 == DeregisterCallback(s1, OnMessage(c))
  IN  [s2 EXCEPT !.calls[c] = [NoCall EXCEPT !.op = "enum",
                                             !.pc = "cancelled"],
                 !.last = [c |-> c, op |-> "enum",
                           outage |-> s.calls[c].outage,
                           kind |-> "raised", exc |-> "CancelledError"]]

\* enum_profile_groups_collect()
BeginEnum(c) ==
  /\ Idle(c)
  /\ Commit(CollectEnumeration([NewCall(Cur, c, "enum", TRUE)
                                  EXCEPT !.waiter[c] = NoWaiter], c))

\* The timeout of asyncio.wait_for expires while the queue is empty: the
\* getter is cancelled, and the caller resumes later.
EnumTimeout(c) ==
  /\ calls[c].pc = "enum_wait" /\ calls[c].getter = "pending"
  /\ Commit([Cur EXCEPT !.calls[c].getter = "cancelled"])

EnumResume(c) ==
  /\ calls[c].pc = "enum_wait" /\ calls[c].getter # "pending"
  /\ Commit(GetDone(Cur, c))

EnumCancel(c) ==
  /\ calls[c].op = "enum"
  /\ calls[c].pc \in {"lock", "send_line", "ack_wait", "enum_wait"}
  /\ Commit(Cancelled(Cur, c))

(* wait_synced *)

SyncTimeoutError == [exc |-> "TimeoutError"]

\* MadvrEnvyClient.wait_synced up to its suspension: Event.wait returns at
\* once when the event is set.
WaitSynced(s, c) ==
  IF s.sync_event THEN Return(s, c, None)
  ELSE [s EXCEPT !.calls[c].pc = "sync_wait", !.sync_waiters[c] = "pending"]

\* The end of wait_synced: the future is done, and Event.wait drops it.
SyncDone(s, c) ==
  LET s1 == [s EXCEPT !.sync_waiters[c] = "none"]
  IN  IF s.sync_waiters[c] = "cancelled"
      THEN Raise([s1 EXCEPT !.timed_out = @ \cup {c}], c, SyncTimeoutError)
      ELSE Return(s1, c, None)

\* wait_synced(timeout): bounded is FALSE for timeout=None.
BeginWaitSynced(c, bounded) ==
  /\ Idle(c)
  /\ Commit(WaitSynced([NewCall(Cur, c, "wait_synced", FALSE)
                          EXCEPT !.calls[c].bounded = bounded], c))

\* The timeout of asyncio.wait_for expires: the future is cancelled, and
\* the caller resumes later.
SyncTimeout(c) ==
  /\ calls[c].pc = "sync_wait" /\ calls[c].bounded
  /\ sync_waiters[c] = "pending"
  /\ Commit([Cur EXCEPT !.sync_waiters[c] = "cancelled"])

SyncResume(c) ==
  /\ calls[c].pc = "sync_wait" /\ sync_waiters[c] # "pending"
  /\ Commit(SyncDone(Cur, c))

(* ---------------------------------------------------------------- system *)

Next ==
  \/ \E c \in Callers : BeginStart(c)
  \/ \E c \in Callers : StartConnectOk(c)
  \/ \E c \in Callers : StartConnectFail(c)
  \/ \E c \in Callers : BeginStop(c)
  \/ \E c \in Callers : StopResume(c)
  \/ \E c \in Callers : StopCloseDone(c)
  \/ \E c \in Callers, w \in BOOLEAN : BeginCommand(c, w)
  \/ \E c \in Callers : CommandAcquired(c)
  \/ \E c \in Callers : SendLineOk(c)
  \/ \E c \in Callers : SendLineFail(c)
  \/ \E c \in Callers : AckTimeout(c)
  \/ \E c \in Callers : AckResume(c)
  \/ \E l \in DOMAIN tasks : ListenBegin(l)
  \/ \E l \in DOMAIN tasks, line \in Lines : ListenReadLine(l, line)
  \/ \E l \in DOMAIN tasks : ListenReadTimeout(l)
  \/ \E l \in DOMAIN tasks : ListenReadError(l)
  \/ \E l \in DOMAIN tasks : ListenCloseDone(l)
  \/ \E l \in DOMAIN tasks : ListenConnectOk(l)
  \/ \E l \in DOMAIN tasks, random \in Randoms : ListenConnectFail(l, random)
  \/ \E l \in DOMAIN tasks : ListenWake(l)
  \/ \E l \in DOMAIN tasks : ListenCancelled(l)

Spec == Init /\ [][Next]_vars

(* ----------------------------------------------------- reconnect episodes *)

\* The client constructed with the default policy, in a run long enough
\* for two reconnect episodes.
InitReconnect ==
  /\ Constructed
  /\ device = NoDevice
  /\ link = "off"
  /\ NoCodecCall
  /\ reconnect_initial_backoff = DEFAULT_RECONNECT_INITIAL_BACKOFF
  /\ reconnect_max_backoff = DEFAULT_RECONNECT_MAX_BACKOFF
  /\ reconnect_jitter = DEFAULT_RECONNECT_JITTER
  /\ limits = [transports |-> MaxAttempts, tasks |-> MaxTasks,
               calls |-> MaxCalls, seen |-> 0]

\* start() and stop() from the application tasks, and the listen tasks with
\* a device that sends its Welcome.
NextReconnect ==
  \/ \E c \in Callers : BeginStart(c)
  \/ \E c \in Callers : StartConnectOk(c)
  \/ \E c \in Callers : StartConnectFail(c)
  \/ \E c \in Callers : BeginStop(c)
  \/ \E c \in Callers : StopResume(c)
  \/ \E c \in Callers : StopCloseDone(c)
  \/ \E l \in DOMAIN tasks : ListenBegin(l)
  \/ \E l \in DOMAIN tasks : ListenReadLine(l, WelcomeLine)
  \/ \E l \in DOMAIN tasks : ListenReadTimeout(l)
  \/ \E l \in DOMAIN tasks : ListenReadError(l)
  \/ \E l \in DOMAIN tasks : ListenCloseDone(l)
  \/ \E l \in DOMAIN tasks : ListenConnectOk(l)
  \/ \E l \in DOMAIN tasks, random \in Randoms : ListenConnectFail(l, random)
  \/ \E l \in DOMAIN tasks : ListenWake(l)
  \/ \E l \in DOMAIN tasks : ListenCancelled(l)

SpecReconnect == InitReconnect /\ [][NextReconnect]_vars

(* ------------------------------------------------------ backoff schedule *)

\* The reconnect policies explored: initial backoff below, at and above the
\* maximum, without and with jitter.
InitialBackoffs == {0, 1, 3}
MaxBackoffs == {2, 3}
Jitters == {0, 50}

\* The client constructed with any of these policies.
InitBackoff ==
  /\ Constructed
  /\ device = NoDevice
  /\ link = "off"
  /\ NoCodecCall
  /\ reconnect_initial_backoff \in InitialBackoffs
  /\ reconnect_max_backoff \in MaxBackoffs
  /\ reconnect_jitter \in Jitters
  /\ limits = [transports |-> MaxAttempts, tasks |-> MaxTasks,
               calls |-> MaxCalls, seen |-> 0]

\* One application task that starts and stops the client, and the listen
\* tasks with a device that sends its Welcome.
NextBackoff ==
  \/ BeginStart("a")
  \/ StartConnectOk("a")
  \/ StartConnectFail("a")
  \/ BeginStop("a")
  \/ StopResume("a")
  \/ StopCloseDone("a")
  \/ \E l \in DOMAIN tasks : ListenBegin(l)
  \/ \E l \in DOMAIN tasks : ListenReadLine(l, WelcomeLine)
  \/ \E l \in DOMAIN tasks : ListenReadTimeout(l)
  \/ \E l \in DOMAIN tasks : ListenReadError(l)
  \/ \E l \in DOMAIN tasks : ListenCloseDone(l)
  \/ \E l \in DOMAIN tasks : ListenConnectOk(l)
  \/ \E l \in DOMAIN tasks, random \in Randoms : ListenConnectFail(l, random)
  \/ \E l \in DOMAIN tasks : ListenWake(l)
  \/ \E l \in DOMAIN tasks : ListenCancelled(l)

SpecBackoff == InitBackoff /\ [][NextBackoff]_vars

(* ----------------------------------------------------- waiting for sync *)

\* The lines the device sends to a client whose tasks wait for the sync.
SyncLines == {WelcomeLine, OkLine}

InitSync ==
  /\ Constructed
  /\ device = NoDevice
  /\ link = "off"
  /\ NoCodecCall
  /\ reconnect_initial_backoff = DEFAULT_RECONNECT_INITIAL_BACKOFF
  /\ reconnect_max_backoff = DEFAULT_RECONNECT_MAX_BACKOFF
  /\ reconnect_jitter = DEFAULT_RECONNECT_JITTER
  /\ limits = [transports |-> MaxSyncTransports, tasks |-> MaxSyncTasks,
               calls |-> MaxSyncCalls, seen |-> 0]

\* Application tasks that start and stop the client and wait for the sync,
\* with and without a timeout.
NextSync ==
  \/ \E c \in Callers : BeginStart(c)
  \/ \E c \in Callers : StartConnectOk(c)
  \/ \E c \in Callers : StartConnectFail(c)
  \/ \E c \in Callers : BeginStop(c)
  \/ \E c \in Callers : StopResume(c)
  \/ \E c \in Callers : StopCloseDone(c)
  \/ \E c \in Callers, bounded \in BOOLEAN : BeginWaitSynced(c, bounded)
  \/ \E c \in Callers : SyncTimeout(c)
  \/ \E c \in Callers : SyncResume(c)
  \/ \E l \in DOMAIN tasks : ListenBegin(l)
  \/ \E l \in DOMAIN tasks, line \in SyncLines : ListenReadLine(l, line)
  \/ \E l \in DOMAIN tasks : ListenReadTimeout(l)
  \/ \E l \in DOMAIN tasks : ListenReadError(l)
  \/ \E l \in DOMAIN tasks : ListenCloseDone(l)
  \/ \E l \in DOMAIN tasks : ListenConnectOk(l)
  \/ \E l \in DOMAIN tasks, random \in Randoms : ListenConnectFail(l, random)
  \/ \E l \in DOMAIN tasks : ListenWake(l)
  \/ \E l \in DOMAIN tasks : ListenCancelled(l)

SpecSync == InitSync /\ [][NextSync]_vars

(* ---------------------------------------------------------- enumerations *)

\* The lines the device sends to a client that enumerates profile groups.
EnumLines == {OkLine, DisplaysLine, AmbientLine, ProfileGroupEndLine}

\* The client constructed with auto_reconnect=False.
InitEnum ==
  /\ Constructed
  /\ device = NoDevice
  /\ link = "off"
  /\ NoCodecCall
  /\ auto_reconnect = FALSE
  /\ reconnect_initial_backoff = DEFAULT_RECONNECT_INITIAL_BACKOFF
  /\ reconnect_max_backoff = DEFAULT_RECONNECT_MAX_BACKOFF
  /\ reconnect_jitter = DEFAULT_RECONNECT_JITTER
  /\ limits = [transports |-> MaxEnumTransports, tasks |-> MaxEnumTasks,
               calls |-> MaxEnumCalls, seen |-> MaxEnumSeen]

\* One application task that starts the client and enumerates the profile
\* groups, and the listen task with a device that sends acks, items and
\* end markers at any time.
NextEnum ==
  \/ BeginStart("a")
  \/ StartConnectOk("a")
  \/ StartConnectFail("a")
  \/ BeginEnum("a")
  \/ SendLineOk("a")
  \/ SendLineFail("a")
  \/ AckTimeout("a")
  \/ AckResume("a")
  \/ EnumTimeout("a")
  \/ EnumResume("a")
  \/ \E l \in DOMAIN tasks : ListenBegin(l)
  \/ \E l \in DOMAIN tasks, line \in EnumLines : ListenReadLine(l, line)
  \/ \E l \in DOMAIN tasks : ListenReadTimeout(l)
  \/ \E l \in DOMAIN tasks : ListenReadError(l)
  \/ \E l \in DOMAIN tasks : ListenCloseDone(l)

SpecEnum == InitEnum /\ [][NextEnum]_vars

(* ------------------------------------------------------ enumeration exits *)

\* The lines the device sends in the runs that follow enumerations to their
\* exits.
ExitLines == {OkLine, ErrorLine, ProfileGroupEndLine}

\* The client constructed with auto_reconnect=False.
InitExit ==
  /\ Constructed
  /\ device = NoDevice
  /\ link = "off"
  /\ NoCodecCall
  /\ auto_reconnect = FALSE
  /\ reconnect_initial_backoff = DEFAULT_RECONNECT_INITIAL_BACKOFF
  /\ reconnect_max_backoff = DEFAULT_RECONNECT_MAX_BACKOFF
  /\ reconnect_jitter = DEFAULT_RECONNECT_JITTER
  /\ limits = [transports |-> MaxEnumTransports, tasks |-> MaxEnumTasks,
               calls |-> MaxExitCalls, seen |-> MaxExitSeen]

\* Two application tasks that enumerate the profile groups, one of which
\* starts the client, and that may be cancelled while they are suspended in
\* the enumeration.
NextExit ==
  \/ BeginStart("a")
  \/ StartConnectOk("a")
  \/ StartConnectFail("a")
  \/ \E c \in Callers : BeginEnum(c)
  \/ \E c \in Callers : CommandAcquired(c)
  \/ \E c \in Callers : SendLineOk(c)
  \/ \E c \in Callers : SendLineFail(c)
  \/ \E c \in Callers : AckTimeout(c)
  \/ \E c \in Callers : AckResume(c)
  \/ \E c \in Callers : EnumTimeout(c)
  \/ \E c \in Callers : EnumResume(c)
  \/ \E c \in Callers : EnumCancel(c)
  \/ \E l \in DOMAIN tasks : ListenBegin(l)
  \/ \E l \in DOMAIN tasks, line \in ExitLines : ListenReadLine(l, line)
  \/ \E l \in DOMAIN tasks : ListenReadTimeout(l)
  \/ \E l \in DOMAIN tasks : ListenReadError(l)
  \/ \E l \in DOMAIN tasks : ListenCloseDone(l)

SpecExit == InitExit /\ [][NextExit]_vars

(* ------------------------------------------------------- callback events *)

\* The lines the device sends to a client with callbacks.
EventLines == {WelcomeLine, OkLine, UnknownLine}

\* Application tasks that register and deregister callbacks, start and stop
\* the client, and one that sends commands and waits for their acks.
InitEvents ==
  /\ Constructed
  /\ device = NoDevice
  /\ link = "off"
  /\ NoCodecCall
  /\ reconnect_initial_backoff = DEFAULT_RECONNECT_INITIAL_BACKOFF
  /\ reconnect_max_backoff = DEFAULT_RECONNECT_MAX_BACKOFF
  /\ reconnect_jitter = DEFAULT_RECONNECT_JITTER
  /\ limits = [transports |-> MaxEventTransports, tasks |-> MaxEventTasks,
               calls |-> MaxEventCalls, seen |-> 0]

NextEvents ==
  \/ \E k \in Callbacks : Register(k)
  \/ \E k \in Callbacks : Deregister(k)
  \/ \E c \in Callers : BeginStart(c)
  \/ \E c \in Callers : StartConnectOk(c)
  \/ \E c \in Callers : StartConnectFail(c)
  \/ \E c \in Callers : BeginStop(c)
  \/ \E c \in Callers : StopResume(c)
  \/ \E c \in Callers : StopCloseDone(c)
  \/ BeginCommand("a", TRUE)
  \/ SendLineOk("a")
  \/ SendLineFail("a")
  \/ AckTimeout("a")
  \/ AckResume("a")
  \/ \E l \in DOMAIN tasks : ListenBegin(l)
  \/ \E l \in DOMAIN tasks, line \in EventLines : ListenReadLine(l, line)
  \/ \E l \in DOMAIN tasks : ListenReadTimeout(l)
  \/ \E l \in DOMAIN tasks : ListenReadError(l)
  \/ \E l \in DOMAIN tasks : ListenCloseDone(l)
  \/ \E l \in DOMAIN tasks : ListenConnectOk(l)
  \/ \E l \in DOMAIN tasks, random \in Randoms : ListenConnectFail(l, random)
  \/ \E l \in DOMAIN tasks : ListenWake(l)
  \/ \E l \in DOMAIN tasks : ListenCancelled(l)

SpecEvents == InitEvents /\ [][NextEvents]_vars

(* ----------------------------------------------------- adapter callbacks *)

\* MadvrEnvyClient.register_adapter_callback: a new closure that holds the
\* adapter is registered.
RegisterAdapterCallback(s, w, adapter) ==
  RegisterCallback(
    [s EXCEPT !.wrapped[w] = [adapter |-> adapter, emissions |-> 0,
                              fresh |-> s.adapters[adapter] = None]], w)

\* An application task registers a consumer with an adapter; w is the
\* closure made for it.
RegisterAdapter(w, adapter) ==
  /\ wrapped[w].adapter = ""
  /\ Commit(RegisterAdapterCallback(Cur, w, adapter))

\* MadvrEnvyClient.deregister_adapter_callback, called by an application
\* task with the closure that register_adapter_callback returned.
DeregisterAdapter(w) ==
  /\ w \in callbacks
  /\ Commit(DeregisterCallback(Cur, w))

MaxAdapterCalls == 1
MaxAdapterTransports == 2
MaxAdapterTasks == 1
MaxResets == 1

\* The lines the device sends to a client with adapter callbacks.
AdapterLines == {WelcomeLine, ResetTemporaryLine}

\* An application that gives its adapters to register_adapter_callback, one
\* adapter to one registration or to both, and starts the client; the device
\* accepts every connection.
InitAdapters ==
  /\ Constructed
  /\ device = NoDevice
  /\ link = "off"
  /\ NoCodecCall
  /\ auto_reconnect = TRUE
  /\ reconnect_initial_backoff = DEFAULT_RECONNECT_INITIAL_BACKOFF
  /\ reconnect_max_backoff = DEFAULT_RECONNECT_MAX_BACKOFF
  /\ reconnect_jitter = DEFAULT_RECONNECT_JITTER
  /\ limits = [transports |-> MaxAdapterTransports,
               tasks |-> MaxAdapterTasks, calls |-> MaxAdapterCalls,
               seen |-> 0]

NextAdapters ==
  \/ \E w \in Wrapped, adapter \in Adapters : RegisterAdapter(w, adapter)
  \/ \E w \in Wrapped : DeregisterAdapter(w)
  \/ BeginStart("a")
  \/ StartConnectOk("a")
  \/ \E l \in DOMAIN tasks : ListenBegin(l)
  \/ \E l \in DOMAIN tasks, line \in AdapterLines :
       /\ line = ResetTemporaryLine =>
            state.temporary_reset_count < MaxResets
       /\ ListenReadLine(l, line)
  \/ \E l \in DOMAIN tasks : ListenReadTimeout(l)
  \/ \E l \in DOMAIN tasks : ListenReadError(l)
  \/ \E l \in DOMAIN tasks : ListenCloseDone(l)
  \/ \E l \in DOMAIN tasks : ListenConnectOk(l)

SpecAdapters == InitAdapters /\ [][NextAdapters]_vars

(* --------------------------------------------- callbacks that deregister *)

MaxFanOutCalls == 1
MaxFanOutTransports == 2
MaxFanOutTasks == 1

\* The callbacks of an application one of whose callbacks deregisters
\* another.
FanOutCallbacks == {Deregisterer, "k2"}

\* The lines the device sends to it.
FanOutLines == {WelcomeLine, OkLine}

\* Application tasks that register and deregister the two callbacks and
\* start the client.
InitFanOut ==
  /\ Constructed
  /\ device = NoDevice
  /\ link = "off"
  /\ NoCodecCall
  /\ reconnect_initial_backoff = DEFAULT_RECONNECT_INITIAL_BACKOFF
  /\ reconnect_max_backoff = DEFAULT_RECONNECT_MAX_BACKOFF
  /\ reconnect_jitter = DEFAULT_RECONNECT_JITTER
  /\ limits = [transports |-> MaxFanOutTransports,
               tasks |-> MaxFanOutTasks, calls |-> MaxFanOutCalls,
               seen |-> 0]

NextFanOut ==
  \/ \E k \in FanOutCallbacks : Register(k)
  \/ \E k \in FanOutCallbacks : Deregister(k)
  \/ BeginStart("a")
  \/ StartConnectOk("a")
  \/ \E l \in DOMAIN tasks : ListenBegin(l)
  \/ \E l \in DOMAIN tasks, line \in FanOutLines : ListenReadLine(l, line)
  \/ \E l \in DOMAIN tasks : ListenReadError(l)
  \/ \E l \in DOMAIN tasks : ListenCloseDone(l)
  \/ \E l \in DOMAIN tasks : ListenConnectOk(l)

SpecFanOut == InitFanOut /\ [][NextFanOut]_vars

(* ---------------------------------------------------------------- codec *)

\* A string is the sequence of its parts: a space, a double quote, or a
\* word, a run of other characters written as one part.
Space == " "
Quote == "\""

\* The strings of n spaces.
RECURSIVE Spaces(_)
Spaces(n) == IF n = 0 THEN <<>> ELSE <<Space>> \o Spaces(n - 1)

\* " ".join(strings)
RECURSIVE Join(_)
Join(strings) ==
  IF strings = <<>> THEN <<>>
  ELSE IF Len(strings) = 1 THEN strings[1]
  ELSE strings[1] \o <<Space>> \o Join(Tail(strings))

\* str.strip()
RECURSIVE LStrip(_)
LStrip(s) == IF s # <<>> /\ Head(s) = Space THEN LStrip(Tail(s)) ELSE s
RECURSIVE RStrip(_)
RStrip(s) ==
  IF s # <<>> /\ s[Len(s)] = Space
  THEN RStrip(SubSeq(s, 1, Len(s) - 1))
  ELSE s
Strip(s) == RStrip(LStrip(s))

\* TOKEN_PATTERN.findall(line) from position i: at a quote that has a later
\* quote the token runs to the next quote, at any other part that is not a
\* space it runs to the part before the next space, and a space is skipped.
RECURSIVE TokensFrom(_, _)
TokensFrom(s, i) ==
  IF i > Len(s) THEN <<>>
  ELSE IF s[i] = Quote /\ \E j \in (i + 1)..Len(s) : s[j] = Quote
  THEN LET j == CHOOSE j \in (i + 1)..Len(s) :
                  s[j] = Quote /\ \A k \in (i + 1)..(j - 1) : s[k] # Quote
       IN  <<SubSeq(s, i, j)>> \o TokensFrom(s, j + 1)
  ELSE IF s[i] # Space
  THEN LET j == CHOOSE j \in i..Len(s) :
                  /\ \A k \in i..j : s[k] # Space
                  /\ j = Len(s) \/ s[j + 1] = Space
       IN  <<SubSeq(s, i, j)>> \o TokensFrom(s, j + 1)
  ELSE TokensFrom(s, i + 1)

Tokens(line) == TokensFrom(line, 1)

Unquote(token) ==
  IF Len(token) >= 2 /\ token[1] = Quote /\ token[Len(token)] = Quote
  THEN SubSeq(token, 2, Len(token) - 1)
  ELSE token

\* The words that int() and float() accept, with their values.
Numbers == {"1", "2"}
IntOf(word) == IF word = "1" THEN 1 ELSE 2

\* int(value) and float(value) raise ValueError for a string that is not
\* a number.
ValueError == [type |-> "ValueError"]
IsNumber(value) == Len(value) = 1 /\ value[1] \in Numbers
ToInt(value) == IF IsNumber(value) THEN IntOf(value[1]) ELSE None
Float(value) == IF IsNumber(value) THEN IntOf(value[1]) ELSE ValueError
Raised(message) == message.type = "ValueError"

UnknownMessage(raw) == [type |-> "Unknown", raw |-> raw]

ParseOpenMenu(tokens, line) ==
  IF Len(tokens) # 2 THEN UnknownMessage(line)
  ELSE [type |-> "OpenMenu", menu |-> Unquote(tokens[2])]

ParseActivateProfile(tokens, line) ==
  IF Len(tokens) # 3 THEN UnknownMessage(line)
  ELSE IF ~IsNumber(tokens[3]) THEN UnknownMessage(line)
  ELSE [type |-> "ActivateProfile", profile_group |-> tokens[2],
        profile_index |-> ToInt(tokens[3])]

ParseMaskingRatio(tokens, line) ==
  IF Len(tokens) # 4 THEN UnknownMessage(line)
  ELSE IF ~IsNumber(tokens[4]) THEN UnknownMessage(line)
  ELSE IF ~IsNumber(tokens[3]) THEN Float(tokens[3])
  ELSE [type |-> "MaskingRatio", resolution |-> tokens[2],
        decimal_ratio |-> Float(tokens[3]),
        integer_ratio |-> ToInt(tokens[4])]

\* The body of the try statement of parse_message.
Dispatch(tokens, normalized, line) ==
  LET head == tokens[1] IN
  IF head = <<"OK">> THEN [type |-> "Ok"]
  ELSE IF head = <<"OpenMenu">> THEN ParseOpenMenu(tokens, normalized)
  ELSE IF head = <<"ActivateProfile">>
  THEN ParseActivateProfile(tokens, normalized)
  ELSE IF head = <<"MaskingRatio">>
  THEN ParseMaskingRatio(tokens, normalized)
  ELSE IF head = <<"Toggle">> /\ Len(tokens) = 2
  THEN [type |-> "Toggle", option |-> tokens[2]]
  ELSE UnknownMessage(line)

parse_message(line) ==
  LET normalized == Strip(line) IN
  IF normalized = <<>> THEN UnknownMessage(line)
  ELSE LET message == Dispatch(Tokens(normalized), normalized, line)
       IN  IF Raised(message) THEN UnknownMessage(line) ELSE message

(* -------------------------------------------------------- parsing lines *)

MaxWords == 4
MaxPad == 1

\* The words of the lines parsed: verbs the parser knows, one it does not,
\* a number and a word that is not a number.
ParseWords ==
  {"OK", "OpenMenu", "ActivateProfile", "MaskingRatio", "Toggle", "Bogus",
   "1", "x"}

\* Lines of up to MaxWords words, with up to MaxPad spaces before and after.
InitParse ==
  /\ Constructed
  /\ device = NoDevice
  /\ link = "off"
  /\ auto_reconnect = FALSE
  /\ reconnect_initial_backoff = DEFAULT_RECONNECT_INITIAL_BACKOFF
  /\ reconnect_max_backoff = DEFAULT_RECONNECT_MAX_BACKOFF
  /\ reconnect_jitter = DEFAULT_RECONNECT_JITTER
  /\ limits = [transports |-> 0, tasks |-> 0, calls |-> 0, seen |-> 0]
  /\ envy = NoEnvy
  /\ built = NoBuild
  /\ bridged = NoPayload
  /\ updated = NoUpdate
  /\ \E n \in 0..MaxWords, before \in 0..MaxPad, after \in 0..MaxPad :
       \E words \in [1..n -> ParseWords] :
         parsed = [line |-> Spaces(before)
                              \o Join([i \in 1..n |-> <<words[i]>>])
                              \o Spaces(after),
                   message |-> None, done |-> FALSE]

Parse ==
  /\ ~parsed.done
  /\ parsed' = [parsed EXCEPT !.message = parse_message(parsed.line),
                              !.done = TRUE]
  /\ UNCHANGED <<client_vars, device, link, built, bridged, updated, envy>>

NextParse == Parse

SpecParse == InitParse /\ [][NextParse]_vars

(* ------------------------------------------------------ building commands *)

\* str(arg) of an integer argument.
Str(n) == IF n = 1 THEN <<"1">> ELSE <<"2">>

Contains(value, part) == \E i \in DOMAIN value : value[i] = part

quote_if_needed(value) ==
  IF /\ Contains(value, Space)
     /\ ~(/\ value # <<>>
          /\ value[1] = Quote
          /\ value[Len(value)] = Quote)
  THEN <<Quote>> \o value \o <<Quote>>
  ELSE value

\* An argument is an integer n or a string s.
Rendered(arg) == IF arg.int THEN Str(arg.n) ELSE quote_if_needed(arg.s)

build_command(command, args) ==
  Join(<<command>> \o [i \in DOMAIN args |-> Rendered(args[i])])

MaxArgs == 2
MaxArgLen == 2

\* The arguments built: the integers 1 and 2, and the strings of up to
\* MaxArgLen letters, spaces and double quotes.
Arguments ==
  {[int |-> TRUE, n |-> n, s |-> <<>>] : n \in {1, 2}}
    \cup {[int |-> FALSE, n |-> 0, s |-> s] :
            s \in UNION {[1..n -> {"a", Space, Quote}] : n \in 0..MaxArgLen}}

InitBuild ==
  /\ Constructed
  /\ device = NoDevice
  /\ link = "off"
  /\ auto_reconnect = FALSE
  /\ reconnect_initial_backoff = DEFAULT_RECONNECT_INITIAL_BACKOFF
  /\ reconnect_max_backoff = DEFAULT_RECONNECT_MAX_BACKOFF
  /\ reconnect_jitter = DEFAULT_RECONNECT_JITTER
  /\ limits = [transports |-> 0, tasks |-> 0, calls |-> 0, seen |-> 0]
  /\ envy = NoEnvy
  /\ parsed = NoParse
  /\ bridged = NoPayload
  /\ updated = NoUpdate
  /\ \E n \in 0..MaxArgs : \E args \in [1..n -> Arguments] :
       built = [NoBuild EXCEPT !.command = <<"DisplayMessage">>,
                               !.args = args]

\* build_command, and the line it built read back with the tokenizer and
\* _unquote.
Build ==
  /\ ~built.done
  /\ LET line == build_command(built.command, built.args)
         tokens == Tokens(line)
     IN  built' = [built EXCEPT
                     !.line = line,
                     !.tokens = [i \in DOMAIN tokens |-> Unquote(tokens[i])],
                     !.done = TRUE]
  /\ UNCHANGED <<client_vars, device, link, parsed, bridged, updated, envy>>

NextBuild == Build

SpecBuild == InitBuild /\ [][NextBuild]_vars

(* ------------------------------------------------- coordinator payloads *)

\* dict(pairs): the last value given for each key.
Dict(pairs) ==
  [k \in {pairs[i][1] : i \in DOMAIN pairs} |->
     LET i == CHOOSE i \in DOMAIN pairs :
                /\ pairs[i][1] = k
                /\ \A j \in DOMAIN pairs : pairs[j][1] = k => j <= i
     IN  pairs[i][2]]

power_state(snapshot) ==
  IF snapshot.is_on = Some(TRUE) THEN "on"
  ELSE IF snapshot.standby = Some(TRUE) THEN "standby"
  ELSE IF snapshot.is_on = Some(FALSE) THEN "off"
  ELSE "unknown"

coordinator_payload(snapshot) ==
  [available |-> snapshot.synced,
   power_state |-> power_state(snapshot),
   version |-> snapshot.version,
   signal_present |-> snapshot.signal_present,
   mac_address |-> snapshot.mac_address,
   active_profile_group |-> snapshot.active_profile_group,
   active_profile_index |-> snapshot.active_profile_index,
   current_menu |-> snapshot.current_menu,
   aspect_ratio_mode |-> snapshot.aspect_ratio_mode,
   tone_map_enabled |-> snapshot.tone_map_enabled,
   temperatures |-> snapshot.temperatures,
   settings_pages |-> Dict(snapshot.settings_pages),
   config_pages |-> Dict(snapshot.config_pages),
   profile_groups |-> Dict(snapshot.profile_groups),
   profiles |-> Dict(snapshot.profiles),
   options |->
     Dict([i \in DOMAIN snapshot.options |->
             <<snapshot.options[i][1],
               [type |-> snapshot.options[i][2],
                current |-> snapshot.options[i][3],
                effective |-> snapshot.options[i][4]]>>]),
   last_system_action |-> snapshot.last_system_action,
   last_button_event |-> snapshot.last_button_event,
   last_inherit_option_path |-> snapshot.last_inherit_option_path,
   last_inherit_option_effective |-> snapshot.last_inherit_option_effective,
   last_uploaded_3dlut |-> snapshot.last_uploaded_3dlut,
   last_renamed_3dlut |-> snapshot.last_renamed_3dlut,
   last_deleted_3dlut |-> snapshot.last_deleted_3dlut,
   last_store_settings |-> snapshot.last_store_settings,
   last_restore_settings |-> snapshot.last_restore_settings,
   temporary_reset_count |-> snapshot.temporary_reset_count,
   display_changed_count |-> snapshot.display_changed_count,
   settings_upload_count |-> snapshot.settings_upload_count]

\* The options of the snapshot: one option, of type INTEGER.
BridgeOptions == <<<<"hdrNits", "INTEGER", 120, 121>>>>

\* The values of is_on and standby: None, True and False.
Tristate == {None, Some(TRUE), Some(FALSE)}

\* The tuples that snapshot_from_state makes of the signal and ratio
\* messages, and None where no such message was applied.
IncomingSignals ==
  {None, <<"3840x2160", "23.976p", "2D", "422", "10bit", "HDR10", "2020",
           "TV", "16:9">>}
OutgoingSignals ==
  {None, <<"3840x2160", "23.976p", "2D", "RGB", "8bit", "SDR", "2020",
           "TV">>}
AspectRatios == {None, <<"3840:1600", 24, 240, "Panavision">>}
MaskingRatios == {None, <<"3840:1700", 22, 220>>}

InitPayload ==
  /\ Constructed
  /\ device = NoDevice
  /\ link = "off"
  /\ auto_reconnect = FALSE
  /\ reconnect_initial_backoff = DEFAULT_RECONNECT_INITIAL_BACKOFF
  /\ reconnect_max_backoff = DEFAULT_RECONNECT_MAX_BACKOFF
  /\ reconnect_jitter = DEFAULT_RECONNECT_JITTER
  /\ limits = [transports |-> 0, tasks |-> 0, calls |-> 0, seen |-> 0]
  /\ envy = NoEnvy
  /\ parsed = NoParse
  /\ built = NoBuild
  /\ updated = NoUpdate
  /\ \E synced \in BOOLEAN, is_on \in Tristate, standby \in Tristate,
        incoming_signal \in IncomingSignals,
        outgoing_signal \in OutgoingSignals,
        aspect_ratio \in AspectRatios, masking_ratio \in MaskingRatios :
       bridged = [NoPayload EXCEPT
                    !.snapshot =
                      [EnvySnapshot(synced, is_on, standby, incoming_signal,
                                    outgoing_signal, aspect_ratio,
                                    masking_ratio)
                         EXCEPT !.version = Some("1.1.3"),
                                !.options = BridgeOptions]]

CoordinatorPayload ==
  /\ ~bridged.done
  /\ bridged' = [bridged EXCEPT
                   !.payload = coordinator_payload(bridged.snapshot),
                   !.done = TRUE]
  /\ UNCHANGED <<client_vars, device, link, parsed, built, updated, envy>>

NextPayload == CoordinatorPayload

SpecPayload == InitPayload /\ [][NextPayload]_vars

(* ------------------------------------------------------ adapter updates *)

MaxCount == 2

\* Snapshots of a synced device that differ in the three counters and in
\* the last system action.
CountedSnapshots ==
  {[EnvySnapshot(TRUE, Some(TRUE), Some(FALSE), None, None, None, None)
      EXCEPT !.temporary_reset_count = t, !.display_changed_count = d,
             !.settings_upload_count = u, !.last_system_action = a] :
     t \in 0..MaxCount, d \in 0..MaxCount, u \in 0..MaxCount,
     a \in {None, Some("Restart")}}

\* An adapter that has been updated before or not, and the snapshot of its
\* next update.
InitUpdate ==
  /\ Constructed
  /\ device = NoDevice
  /\ link = "off"
  /\ auto_reconnect = FALSE
  /\ reconnect_initial_backoff = DEFAULT_RECONNECT_INITIAL_BACKOFF
  /\ reconnect_max_backoff = DEFAULT_RECONNECT_MAX_BACKOFF
  /\ reconnect_jitter = DEFAULT_RECONNECT_JITTER
  /\ limits = [transports |-> 0, tasks |-> 0, calls |-> 0, seen |-> 0]
  /\ envy = NoEnvy
  /\ parsed = NoParse
  /\ built = NoBuild
  /\ bridged = NoPayload
  /\ \E previous \in {None} \cup {Some(p) : p \in CountedSnapshots},
        snapshot \in CountedSnapshots :
       updated = [NoUpdate EXCEPT !.previous = previous,
                                  !.snapshot = snapshot]

Update ==
  /\ ~updated.done
  /\ LET result == AdapterUpdate(updated.previous, updated.snapshot)
     IN  updated' = [updated EXCEPT !.deltas = result.deltas,
                                    !.events = result.events,
                                    !.done = TRUE]
  /\ UNCHANGED <<client_vars, device, link, parsed, built, bridged, envy>>

NextUpdate == Update

SpecUpdate == InitUpdate /\ [][NextUpdate]_vars

(* ------------------------------------------------------ canonical state *)

\* A dict: d[key] = value, d.pop(key, None), and the empty dict.
EmptyDict == [key \in {} |-> <<>>]
Put(d, key, value) ==
  [k \in DOMAIN d \cup {key} |-> IF k = key THEN value ELSE d[k]]
Pop(d, key) == [k \in DOMAIN d \ {key} |-> d[k]]

\* EnvyState() as constructed, with all its fields.
EnvyState ==
  [version |-> None, is_on |-> None, standby |-> None, mac_address |-> None,
   active_profile_group |-> None, active_profile_index |-> None,
   incoming_signal |-> None, outgoing_signal |-> None,
   aspect_ratio |-> None, masking_ratio |-> None, temperatures |-> None,
   signal_present |-> None, current_menu |-> None,
   aspect_ratio_mode |-> None, last_button_event |-> None,
   settings_pages |-> EmptyDict, config_pages |-> EmptyDict,
   profile_groups |-> EmptyDict, profiles |-> EmptyDict,
   options |-> EmptyDict, tone_map_enabled |-> None,
   last_option_change |-> None, last_inherit_option |-> None,
   last_uploaded_3dlut |-> None, last_renamed_3dlut |-> None,
   last_deleted_3dlut |-> None, settings_upload_count |-> 0,
   last_store_settings |-> None, last_restore_settings |-> None,
   temporary_reset_count |-> 0, display_changed_count |-> 0,
   firmware_update_pending |-> FALSE, last_missing_heartbeat |-> FALSE,
   last_system_action |-> None, seen_welcome |-> FALSE]

\* EnvyState.reset_runtime_values, of the whole state.
reset_runtime_values(st) ==
  [st EXCEPT
     !.version = None, !.is_on = None, !.standby = None,
     !.mac_address = None, !.active_profile_group = None,
     !.active_profile_index = None, !.incoming_signal = None,
     !.outgoing_signal = None, !.aspect_ratio = None,
     !.masking_ratio = None, !.temperatures = None,
     !.signal_present = None, !.current_menu = None,
     !.aspect_ratio_mode = None, !.last_button_event = None,
     !.settings_pages = EmptyDict, !.config_pages = EmptyDict,
     !.profile_groups = EmptyDict, !.profiles = EmptyDict,
     !.options = EmptyDict, !.tone_map_enabled = None,
     !.last_option_change = None, !.last_inherit_option = None,
     !.last_uploaded_3dlut = None, !.last_renamed_3dlut = None,
     !.last_deleted_3dlut = None, !.settings_upload_count = 0,
     !.last_store_settings = None, !.last_restore_settings = None,
     !.temporary_reset_count = 0, !.display_changed_count = 0,
     !.firmware_update_pending = FALSE, !.last_missing_heartbeat = FALSE,
     !.last_system_action = None, !.seen_welcome = FALSE]

\* A variant of ProfileKey: the key is the profile group alone.
GroupAsKey(message) == message.profile_group

\* f"{message.profile_group}_{message.profile_index}": strings are
\* sequences of characters here.
ProfileKey(message) ==
  message.profile_group \o <<"_">> \o Str(message.profile_index)

\* OptionMessage(...) as ChangeOption stores it.
OptionMessage(option_type, option_id, current_value, effective_value) ==
  [type |-> "Option", option_type |-> option_type, option_id |-> option_id,
   current_value |-> current_value, effective_value |-> effective_value]

\* A variant of PowerOff in apply: standby is left as it was.
PowerOffKeepsStandby(st) == [st EXCEPT !.is_on = Some(FALSE)]

\* The PowerOff branch of apply.
PowerOff(st) == [st EXCEPT !.is_on = Some(FALSE), !.standby = Some(FALSE)]

\* A variant of Increment: the counter is set to one.
SetToOne(count) == 1

\* `+= 1`
Increment(count) == count + 1

\* message.__class__.__name__
ClassName(m) ==
  IF m.type = "AddProfileToPage" THEN "AddProfileToPageMessage"
  ELSE "RemoveProfileFromPageMessage"

\* EnvyState.apply, of the whole state; a message is a record with the
\* name of its class, less "Message", as its type.  A system action is a
\* sequence of the parts of its string.
apply(st, m) ==
  CASE m.type = "Welcome" ->
         [st EXCEPT !.version = Some(m.version), !.seen_welcome = TRUE,
                    !.is_on = Some(TRUE), !.standby = Some(FALSE)]
    [] m.type = "Standby" ->
         [st EXCEPT !.is_on = Some(FALSE), !.standby = Some(TRUE)]
    [] m.type = "PowerOff" -> PowerOff(st)
    [] m.type = "Restart" -> [st EXCEPT !.last_system_action = Some(<<"Restart">>)]
    [] m.type = "ReloadSoftware" ->
         [st EXCEPT !.last_system_action = Some(<<"ReloadSoftware">>)]
    [] m.type = "NoSignal" -> [st EXCEPT !.signal_present = Some(FALSE)]
    [] m.type = "OpenMenu" -> [st EXCEPT !.current_menu = Some(m.menu)]
    [] m.type = "CloseMenu" -> [st EXCEPT !.current_menu = None]
    [] m.type = "KeyPress" ->
         [st EXCEPT !.last_button_event = Some(<<"press", m.button>>)]
    [] m.type = "KeyHold" ->
         [st EXCEPT !.last_button_event = Some(<<"hold", m.button>>)]
    [] m.type = "SetAspectRatioMode" ->
         [st EXCEPT !.aspect_ratio_mode = Some(m.mode)]
    [] m.type = "MacAddress" -> [st EXCEPT !.mac_address = Some(m.mac)]
    [] m.type = "Temperatures" -> [st EXCEPT !.temperatures = Some(m)]
    [] m.type = "IncomingSignalInfo" ->
         [st EXCEPT !.incoming_signal = Some(m),
                    !.signal_present = Some(TRUE)]
    [] m.type = "OutgoingSignalInfo" ->
         [st EXCEPT !.outgoing_signal = Some(m)]
    [] m.type = "AspectRatio" -> [st EXCEPT !.aspect_ratio = Some(m)]
    [] m.type = "MaskingRatio" -> [st EXCEPT !.masking_ratio = Some(m)]
    [] m.type \in {"ActiveProfile", "ActivateProfile"} ->
         [st EXCEPT !.active_profile_group = Some(m.profile_group),
                    !.active_profile_index = Some(m.profile_index)]
    [] m.type \in {"CreateProfileGroup", "RenameProfileGroup",
                   "ProfileGroup"} ->
         [st EXCEPT !.profile_groups = Put(@, m.group_id, m.name)]
    [] m.type = "DeleteProfileGroup" ->
         [st EXCEPT !.profile_groups = Pop(@, m.group_id)]
    [] m.type = "Profile" ->
         [st EXCEPT !.profiles = Put(@, m.profile_id, m.name)]
    [] m.type \in {"CreateProfile", "RenameProfile"} ->
         [st EXCEPT !.profiles = Put(@, ProfileKey(m), m.name)]
    [] m.type = "DeleteProfile" ->
         [st EXCEPT !.profiles = Pop(@, ProfileKey(m))]
    [] m.type = "SettingPage" ->
         [st EXCEPT !.settings_pages = Put(@, m.page_id, m.name)]
    [] m.type = "ConfigPage" ->
         [st EXCEPT !.config_pages = Put(@, m.page_id, m.name)]
    [] m.type = "Option" -> [st EXCEPT !.options = Put(@, m.option_id, m)]
    [] m.type = "ChangeOption" ->
         [st EXCEPT !.last_option_change = Some(m),
                    !.options = Put(@, m.option_id_path,
                                    OptionMessage(m.option_type,
                                                  m.option_id_path,
                                                  m.current_value,
                                                  m.effective_value))]
    [] m.type = "InheritOption" ->
         [st EXCEPT !.last_inherit_option = Some(m)]
    [] m.type = "ResetTemporary" ->
         [st EXCEPT !.temporary_reset_count = Increment(@)]
    [] m.type = "Upload3DLUTFile" ->
         [st EXCEPT !.last_uploaded_3dlut = Some(m.filename)]
    [] m.type = "Rename3DLUTFile" ->
         [st EXCEPT !.last_renamed_3dlut =
                       Some(<<m.old_filename, m.new_filename>>)]
    [] m.type = "Delete3DLUTFile" ->
         [st EXCEPT !.last_deleted_3dlut = Some(m.filename)]
    [] m.type = "UploadSettingsFile" ->
         [st EXCEPT !.settings_upload_count = Increment(@)]
    [] m.type = "StoreSettings" ->
         [st EXCEPT !.last_store_settings =
                       Some(<<m.target, m.storage_name>>)]
    [] m.type = "RestoreSettings" ->
         [st EXCEPT !.last_restore_settings = Some(m.target)]
    [] m.type = "Toggle" ->
         [st EXCEPT !.last_system_action = Some(<<"Toggle:", m.option>>)]
    [] m.type = "ToneMapOn" -> [st EXCEPT !.tone_map_enabled = Some(TRUE)]
    [] m.type = "ToneMapOff" -> [st EXCEPT !.tone_map_enabled = Some(FALSE)]
    [] m.type = "DisplayChanged" ->
         [st EXCEPT !.display_changed_count = Increment(@)]
    [] m.type = "RefreshLicenseInfo" ->
         [st EXCEPT !.last_system_action = Some(<<"RefreshLicenseInfo">>)]
    [] m.type = "Force1080p60Output" ->
         [st EXCEPT !.last_system_action = Some(<<"Force1080p60Output">>)]
    [] m.type = "Hotplug" -> [st EXCEPT !.last_system_action = Some(<<"Hotplug">>)]
    [] m.type = "FirmwareUpdate" ->
         [st EXCEPT !.firmware_update_pending = TRUE]
    [] m.type = "MissingHeartbeat" ->
         [st EXCEPT !.last_missing_heartbeat = TRUE]
    [] m.type \in {"AddProfileToPage", "RemoveProfileFromPage"} ->
         [st EXCEPT !.last_system_action = Some(<<ClassName(m)>>)]
    [] OTHER -> st

\* The keys of the dicts, as sorted() orders them.
KeysInOrder ==
  << <<"g", "_", "1">>, <<"g", "_", "1", "_", "1">>,
     <<"g", "_", "1", "_", "2">>, <<"g", "_", "2">>, <<"h", "d", "r">>,
     <<"p">> >>

\* tuple(sorted(d.items(), key=lambda item: item[0]))
SortedItems(d) ==
  LET keys == SelectSeq(KeysInOrder, LAMBDA k : k \in DOMAIN d)
  IN  [i \in 1..Len(keys) |-> <<keys[i], d[keys[i]]>>]

\* The options tuple of snapshot_from_state.
SortedOptions(d) ==
  LET keys == SelectSeq(KeysInOrder, LAMBDA k : k \in DOMAIN d)
  IN  [i \in 1..Len(keys) |->
         <<keys[i], d[keys[i]].option_type, d[keys[i]].current_value,
           d[keys[i]].effective_value>>]

\* The tuple snapshot_from_state makes of an optional message.
TupleOf(message, names) ==
  IF message = None THEN None
  ELSE Some([i \in 1..Len(names) |-> message[1][names[i]]])

\* snapshot_from_state, of the whole state.
SnapshotFromState(st) ==
  [synced |-> st.seen_welcome, version |-> st.version, is_on |-> st.is_on,
   standby |-> st.standby, signal_present |-> st.signal_present,
   mac_address |-> st.mac_address,
   active_profile_group |-> st.active_profile_group,
   active_profile_index |-> st.active_profile_index,
   current_menu |-> st.current_menu,
   aspect_ratio_mode |-> st.aspect_ratio_mode,
   incoming_signal |->
     TupleOf(st.incoming_signal,
             <<"resolution", "frame_rate", "signal_type", "color_space",
               "bit_depth", "hdr_mode", "colorimetry", "black_levels",
               "aspect_ratio">>),
   outgoing_signal |->
     TupleOf(st.outgoing_signal,
             <<"resolution", "frame_rate", "signal_type", "color_space",
               "bit_depth", "hdr_mode", "colorimetry", "black_levels">>),
   aspect_ratio |->
     TupleOf(st.aspect_ratio,
             <<"resolution", "decimal_ratio", "integer_ratio", "name">>),
   masking_ratio |->
     TupleOf(st.masking_ratio,
             <<"resolution", "decimal_ratio", "integer_ratio">>),
   tone_map_enabled |-> st.tone_map_enabled,
   temperatures |->
     TupleOf(st.temperatures, <<"gpu", "hdmi_input", "cpu", "mainboard">>),
   settings_pages |-> SortedItems(st.settings_pages),
   config_pages |-> SortedItems(st.config_pages),
   profile_groups |-> SortedItems(st.profile_groups),
   profiles |-> SortedItems(st.profiles),
   options |-> SortedOptions(st.options),
   last_system_action |-> st.last_system_action,
   last_button_event |-> st.last_button_event,
   last_inherit_option_path |->
     IF st.last_inherit_option = None THEN None
     ELSE Some(st.last_inherit_option[1].option_id_path),
   last_inherit_option_effective |->
     IF st.last_inherit_option = None THEN None
     ELSE Some(st.last_inherit_option[1].effective_value),
   last_uploaded_3dlut |-> st.last_uploaded_3dlut,
   last_renamed_3dlut |-> st.last_renamed_3dlut,
   last_deleted_3dlut |-> st.last_deleted_3dlut,
   last_store_settings |-> st.last_store_settings,
   last_restore_settings |-> st.last_restore_settings,
   temporary_reset_count |-> st.temporary_reset_count,
   display_changed_count |-> st.display_changed_count,
   settings_upload_count |-> st.settings_upload_count]

\* wrapped of register_adapter_callback for a received message, with the
\* adapter's last snapshot and the state after apply: the adapter's snapshot
\* afterwards, and whether and with what the consumer is called.
WrappedWith(adapter, st) ==
  LET result == AdapterUpdate(adapter, SnapshotFromState(st))
      events == IF adapter = None
                THEN <<AdapterEvent("initial", <<>>)>> \o result.events
                ELSE result.events
  IN  [snapshot |-> result.snapshot, deltas |-> result.deltas,
       called |-> adapter = None \/ ~Suppressed(result),
       events |-> IF adapter = None \/ ~Suppressed(result) THEN events
                  ELSE <<>>]

(* the messages a device sends *)

MaxApplied == 3

Message(type) == [type |-> type]
Buttons == {"MENU", "OK"}
KeyMessages ==
  {[type |-> t, button |-> b] : t \in {"KeyPress", "KeyHold"}, b \in Buttons}
ToggleMessage(option) == [type |-> "Toggle", option |-> option]

\* Welcome, Standby and PowerOff among messages that touch other fields.
PowerMessages ==
  {WelcomeMessage("1.1.3"), Message("Standby"), Message("PowerOff"),
   Message("NoSignal"), Message("ResetTemporary"), Message("Restart"),
   [type |-> "KeyPress", button |-> "MENU"], [type |-> "Unknown", raw |-> "x"]}

\* The messages that count among others.
CounterMessages ==
  {Message("ResetTemporary"), Message("DisplayChanged"),
   Message("UploadSettingsFile"), WelcomeMessage("1.1.3"),
   Message("ToneMapOn"), Message("FirmwareUpdate")}

\* Profile groups "g" and "g_1", profile indexes 1 and 2, and the profile
\* ids "g_1" and "p" of enumeration items.
ProfileGroups == {<<"g">>, <<"g", "_", "1">>}
ProfileIndexes == {1, 2}
ProfileMessages ==
  {[type |-> t, profile_group |-> g, profile_index |-> i, name |-> n] :
     t \in {"CreateProfile"}, g \in ProfileGroups, i \in ProfileIndexes,
     n \in {"Day"}}
  \cup
  {[type |-> t, profile_group |-> g, profile_index |-> i, name |-> n] :
     t \in {"RenameProfile"}, g \in ProfileGroups, i \in ProfileIndexes,
     n \in {"Night"}}
  \cup
  {[type |-> "DeleteProfile", profile_group |-> g, profile_index |-> i] :
     g \in ProfileGroups, i \in ProfileIndexes}
  \cup
  {[type |-> "Profile", profile_id |-> id, name |-> n] :
     id \in {<<"g", "_", "1">>, <<"p">>}, n \in {"Day", "Cinema"}}
  \cup {Message("DisplayChanged")}

\* Key and system-action messages.
ActionMessages ==
  KeyMessages
  \cup {Message("Restart"), Message("Hotplug"), ToggleMessage("ToneMap"),
        WelcomeMessage("1.1.3")}

\* Messages that change fields of the state, some of them twice with
\* different values; the values of STRING and ENUM options are parsed to the
\* text itself.
FieldMessages ==
  {Message("FirmwareUpdate"), Message("MissingHeartbeat"),
   WelcomeMessage("1.1.3"), Message("ToneMapOn")}
  \cup
  {[type |-> "ChangeOption", option_type |-> "STRING",
    option_id_path |-> <<"h", "d", "r">>, current_value |-> v,
    effective_value |-> v] : v \in {"YES", "NO"}}
  \cup
  {[type |-> "InheritOption", option_type |-> ty,
    option_id_path |-> <<"h", "d", "r">>, effective_value |-> "YES"] :
     ty \in {"STRING", "ENUM"}}
  \cup
  {[type |-> "Temperatures", gpu |-> 50, hdmi_input |-> 40, cpu |-> 45,
    mainboard |-> 38, extra |-> e] : e \in {<<>>, <<41>>}}

(* the steps of a state and its adapter *)

\* _listen_loop applies a message and emits received_message: the closure
\* of a registered adapter callback runs after apply.
Receive(m) ==
  /\ Len(envy.applied) < MaxApplied
  /\ LET st == apply(envy.state, m)
         w == WrappedWith(envy.adapter, st)
     IN  envy' = [envy EXCEPT
                    !.state = st,
                    !.applied = Append(@, m),
                    !.adapter = IF envy.registered THEN Some(w.snapshot)
                                ELSE @,
                    !.call = IF envy.registered
                             THEN Some([message |-> m, before |-> envy.state,
                                        previous |-> envy.adapter] @@ w)
                             ELSE None]
  /\ UNCHANGED <<client_vars, device, link, parsed, built, bridged, updated>>

\* _connect and _disconnect_statefully reset the state; the closure returns
\* at once for their events.
Reset ==
  /\ envy.applied # <<>>
  /\ envy' = [envy EXCEPT !.state = reset_runtime_values(@),
                          !.applied = <<>>, !.call = None]
  /\ UNCHANGED <<client_vars, device, link, parsed, built, bridged, updated>>

\* register_adapter_callback with a new adapter.
RegisterNewAdapter ==
  /\ ~envy.registered
  /\ envy' = [envy EXCEPT !.registered = TRUE, !.adapter = None,
                          !.call = None]
  /\ UNCHANGED <<client_vars, device, link, parsed, built, bridged, updated>>

InitEnvy ==
  /\ Constructed
  /\ device = NoDevice
  /\ link = "off"
  /\ auto_reconnect = FALSE
  /\ reconnect_initial_backoff = DEFAULT_RECONNECT_INITIAL_BACKOFF
  /\ reconnect_max_backoff = DEFAULT_RECONNECT_MAX_BACKOFF
  /\ reconnect_jitter = DEFAULT_RECONNECT_JITTER
  /\ limits = [transports |-> 0, tasks |-> 0, calls |-> 0, seen |-> 0]
  /\ parsed = NoParse
  /\ built = NoBuild
  /\ bridged = NoPayload
  /\ updated = NoUpdate
  /\ envy = [NoEnvy EXCEPT !.state = EnvyState]

NextPower == (\E m \in PowerMessages : Receive(m)) \/ Reset
SpecPower == InitEnvy /\ [][NextPower]_vars

NextCounters == (\E m \in CounterMessages : Receive(m)) \/ Reset
SpecCounters == InitEnvy /\ [][NextCounters]_vars

NextProfiles == (\E m \in ProfileMessages : Receive(m)) \/ Reset
SpecProfiles == InitEnvy /\ [][NextProfiles]_vars

NextActions ==
  \/ \E m \in ActionMessages : Receive(m)
  \/ Reset
  \/ RegisterNewAdapter
SpecActions == InitEnvy /\ [][NextActions]_vars

NextFields ==
  \/ \E m \in FieldMessages : Receive(m)
  \/ Reset
  \/ RegisterNewAdapter
SpecFields == InitEnvy /\ [][NextFields]_vars

(* ------------------------------------------------------------ the device *)

MaxDeviceCalls == 4

\* What the device answers to a command line: "Nope" is no command.
ReplyTo(line) == IF line = "Nope" THEN ErrorLine ELSE OkLine

\* The lines the device sends for a command line: its reply, and after the
\* OK of an enumeration the one profile group it has and the end marker.
RepliesTo(line) ==
  IF line = EnumCommandLine THEN <<OkLine, DisplaysLine, ProfileGroupEndLine>>
  ELSE <<ReplyTo(line)>>

\* The device has received the line task c wrote: it owes the lines it
\* sends for it.
LineReceived(dev, c, line) ==
  [dev EXCEPT !.owed = @ \o [i \in DOMAIN RepliesTo(line) |->
                               [c |-> c, id |-> dev.written + 1,
                                line |-> RepliesTo(line)[i]]],
              !.written = @ + 1,
              !.last[c] = dev.written + 1]

\* send_line returns: the line is with the device.
SendLineToDevice(c) ==
  /\ calls[c].pc = "send_line"
  /\ Deliverable(calls[c].t)
  /\ Assign(SendLineDone(Cur, c))
  /\ device' = LineReceived(device, c, LineOf(Cur, c))

\* The listen task reads the oldest reply the device owes.
ListenReadReply(l) ==
  /\ device.owed # <<>>
  /\ Runnable(l) /\ tasks[l].pc = "read_line"
  /\ Deliverable(tasks[l].t)
  /\ Assign(ListenLoop(HandleLine(Cur, Head(device.owed).line, tasks[l].t),
                       l))
  /\ device' = [device EXCEPT !.owed = Tail(@)]

\* One connection to a device that answers every command line once, in
\* order, and sends nothing else.
InitDevice ==
  /\ Constructed
  /\ device = NoDevice
  /\ link = "off"
  /\ NoCodecCall
  /\ auto_reconnect = FALSE
  /\ reconnect_initial_backoff = DEFAULT_RECONNECT_INITIAL_BACKOFF
  /\ reconnect_max_backoff = DEFAULT_RECONNECT_MAX_BACKOFF
  /\ reconnect_jitter = DEFAULT_RECONNECT_JITTER
  /\ limits = [transports |-> 1, tasks |-> 1, calls |-> MaxDeviceCalls,
               seen |-> 0]

NextDevice ==
  \/ BeginStart("a")
  \/ StartConnectOk("a")
  \/ \E c \in Callers, w \in BOOLEAN : BeginCommand(c, w)
  \/ \E c \in Callers : CommandAcquired(c)
  \/ \E c \in Callers : SendLineToDevice(c)
  \/ \E c \in Callers : AckTimeout(c)
  \/ \E c \in Callers : AckResume(c)
  \/ \E l \in DOMAIN tasks : ListenBegin(l)
  \/ \E l \in DOMAIN tasks : ListenReadReply(l)

SpecDevice == InitDevice /\ [][NextDevice]_vars

MaxStreamCalls == 4
MaxStreamSeen == 6

\* One connection to a device that answers every command line in order,
\* and one application task that enumerates the profile groups again and
\* again, each enumeration called when the one before has ended.
InitStream ==
  /\ Constructed
  /\ device = NoDevice
  /\ link = "off"
  /\ NoCodecCall
  /\ auto_reconnect = FALSE
  /\ reconnect_initial_backoff = DEFAULT_RECONNECT_INITIAL_BACKOFF
  /\ reconnect_max_backoff = DEFAULT_RECONNECT_MAX_BACKOFF
  /\ reconnect_jitter = DEFAULT_RECONNECT_JITTER
  /\ limits = [transports |-> 1, tasks |-> 1, calls |-> MaxStreamCalls,
               seen |-> MaxStreamSeen]

NextStream ==
  \/ BeginStart("a")
  \/ StartConnectOk("a")
  \/ BeginEnum("a")
  \/ SendLineToDevice("a")
  \/ AckResume("a")
  \/ EnumTimeout("a")
  \/ EnumResume("a")
  \/ \E l \in DOMAIN tasks : ListenBegin(l)
  \/ \E l \in DOMAIN tasks : ListenReadReply(l)

SpecStream == InitStream /\ [][NextStream]_vars

(* ---------------------------------------------------- connection events *)

MaxLinkCalls == 3
MaxLinkTransports == 3
MaxLinkTasks == 2

\* Application tasks that start and stop the client while its transports
\* fail to connect, break and are replaced; the connection events emitted
\* are followed.
InitLink ==
  /\ Constructed
  /\ device = NoDevice
  /\ link = "none"
  /\ NoCodecCall
  /\ reconnect_initial_backoff = DEFAULT_RECONNECT_INITIAL_BACKOFF
  /\ reconnect_max_backoff = DEFAULT_RECONNECT_MAX_BACKOFF
  /\ reconnect_jitter = DEFAULT_RECONNECT_JITTER
  /\ limits = [transports |-> MaxLinkTransports, tasks |-> MaxLinkTasks,
               calls |-> MaxLinkCalls, seen |-> 0]

NextLink ==
  \/ Register("k2")
  \/ \E c \in Callers : BeginStart(c)
  \/ \E c \in Callers : StartConnectOk(c)
  \/ \E c \in Callers : StartConnectFail(c)
  \/ \E c \in Callers : BeginStop(c)
  \/ \E c \in Callers : StopResume(c)
  \/ \E c \in Callers : StopCloseDone(c)
  \/ \E l \in DOMAIN tasks : ListenBegin(l)
  \/ \E l \in DOMAIN tasks : ListenReadLine(l, WelcomeLine)
  \/ \E l \in DOMAIN tasks : ListenReadError(l)
  \/ \E l \in DOMAIN tasks : ListenCloseDone(l)
  \/ \E l \in DOMAIN tasks : ListenConnectOk(l)
  \/ \E l \in DOMAIN tasks, random \in Randoms : ListenConnectFail(l, random)
  \/ \E l \in DOMAIN tasks : ListenWake(l)
  \/ \E l \in DOMAIN tasks : ListenCancelled(l)

SpecLink == InitLink /\ [][NextLink]_vars

(* --------------------------------------------------------------- claims *)

In(q, c) == \E i \in DOMAIN q : q[i] = c
Index(q, c) == CHOOSE i \in DOMAIN q : q[i] = c

\* Both commands wait for an ack on the same connection, and the line of a
\* was written before the send of b began.
SentBefore(a, b) ==
  /\ a # b
  /\ In(sent_order, a)
  /\ calls[a].wait_for_ack /\ calls[b].wait_for_ack
  /\ waiter[b].st # "none" /\ waiter[a].conn = waiter[b].conn
  /\ \/ In(sent_order, b) /\ Index(sent_order, a) < Index(sent_order, b)
     \/ calls[b].pc = "send_line"

\* C1: of two ack-awaiting commands on one connection, the one sent first is
\* ahead of the other in the waiter queue, and its waiter is no longer
\* pending once an ack has completed the other's.
C1_FifoAcks ==
  \A a, b \in Callers :
    SentBefore(a, b) =>
      /\ (In(ack_waiters, a) /\ In(ack_waiters, b)
            => Index(ack_waiters, a) < Index(ack_waiters, b))
      /\ (waiter[b].st = "result" => waiter[a].st # "pending")

\* Two commands were sent one after the other and both were acknowledged,
\* the callers not yet resumed.
C1_Witness ==
  /\ SentBefore("a", "b")
  /\ waiter["a"].st = "result" /\ waiter["b"].st = "result"

\* C2: when the listen loop reads Ok or Error and the queue is non-empty, the
\* head waiter, and no other, leaves the queue completed with that message;
\* a caller resumed with Error raises CommandRejectedError(line, text), a
\* caller resumed with Ok returns the message.
C2_AckCompletesHead ==
  [][/\ \A l \in DOMAIN tasks : \A line \in {OkLine, ErrorLine} :
          (ListenReadLine(l, line) /\ ack_waiters # <<>>) =>
             LET h == Head(ack_waiters)
             IN  /\ ~In(ack_waiters', h)
                 /\ waiter'[h].st = "result"
                 /\ waiter'[h].msg = Some(ParseMessage(line))
                 /\ \A c \in Callers \ {h} :
                      waiter'[c].st = "result" => waiter[c].st = "result"
     /\ \A c \in Callers :
          (AckResume(c) /\ waiter[c].st = "result") =>
             last' =
               [c |-> c, op |-> "command", outage |-> FALSE] @@
               IF waiter[c].msg[1].type = "Error"
               THEN [kind |-> "raised", exc |-> "CommandRejectedError",
                     command |-> CommandLine(c),
                     error |-> waiter[c].msg[1].error]
               ELSE [kind |-> "returned", value |-> waiter[c].msg]]_vars

\* C3: a step that drops the transport fails every pending waiter of the
\* queue and leaves the queue empty, the caller of a failed waiter raises
\* NotConnectedError, and no waiter is completed by an ack read from a
\* connection later than the one it was enqueued on.
C3_DisconnectFailsWaiters ==
  [][/\ (transport' = 0 => ack_waiters' = <<>>)
     /\ \A c \in Callers :
          /\ (transport # 0 /\ transport' = 0 /\ In(ack_waiters, c)
                /\ waiter[c].st = "pending") => waiter'[c].st = "exception"
          /\ \A l \in DOMAIN tasks : \A line \in Lines :
               (waiter[c].st = "pending" /\ waiter'[c].st = "result"
                  /\ ListenReadLine(l, line)) => tasks[l].t <= waiter[c].conn
          /\ (AckResume(c) /\ waiter[c].st = "exception")
                => /\ last'.c = c /\ last'.kind = "raised"
                   /\ last'.exc = "NotConnectedError"]_vars

\* A waiter enqueued on one connection was failed by the disconnect, and a
\* later connection is up before its caller resumed.
C3_Witness ==
  \E c \in Callers :
    /\ waiter[c].st = "exception"
    /\ transport # 0 /\ transports[transport].connected
    /\ waiter[c].conn # transport

\* C4: a command whose send was attempted without a connected transport has
\* raised NotConnectedError, and nothing else, and has left no waiter in
\* the queue.
C4_OutageRaisesNotConnected ==
  (last.op = "command" /\ last.outage) =>
    /\ last.kind = "raised" /\ last.exc = "NotConnectedError"
    /\ ~In(ack_waiters, last.c)

\* C5: state.synced is true exactly when a Welcome was read from the
\* transport the supervisor now holds.
C5_SyncedIffWelcomeOnConnection ==
  Synced(state) <=> (transport # 0 /\ welcomed)

\* C6: whenever `connected` was emitted for a transport, the callbacks saw
\* the initial EnvyState and a clear sync event.
C6_ConnectedSeesInitialState ==
  \A i \in DOMAIN log :
    log[i].event = "connected" =>
      log[i].state = InitialState /\ ~log[i].sync_event

LiveListenTasks == {l \in DOMAIN tasks : tasks[l].pc # "done"}
OpenTransports ==
  {t \in DOMAIN transports : transports[t].connected}

\* C8: at most one listen task is live, and at most one transport is
\* connected and not closed.
C8_OneListenTaskOneTransport ==
  Cardinality(LiveListenTasks) <= 1 /\ Cardinality(OpenTransports) <= 1

C10_StoppedStaysStopped ==
  stopped > 0 =>
    /\ transport = 0
    /\ ack_waiters = <<>>
    /\ state = InitialState /\ ~sync_event
    /\ LiveListenTasks = {}

\* The listen task l enters _attempt_reconnect_until_success in this step:
\* its close() returned, or it found no transport to close.
EntersReconnect(l) ==
  \/ ListenCloseDone(l)
  \/ /\ transport = 0
     /\ ListenBegin(l) \/ ListenReadTimeout(l) \/ ListenReadError(l)
           \/ ListenConnectOk(l) \/ \E line \in Lines : ListenReadLine(l, line)

\* C11: while stop() has not been called and auto_reconnect is set, a failed
\* connect is followed by a sleep and the sleep by a connect on a new
\* transport; when a connect succeeds the task reads from the new transport,
\* which is the client's, and a Welcome read from it makes the state synced
\* and sets the sync event; a task that enters the reconnect with stopping
\* set or auto_reconnect false makes no transport and ends.
C11_ReconnectUntilSuccess ==
  [][\A l \in DOMAIN tasks :
       /\ \A random \in Randoms :
            ListenConnectFail(l, random) => tasks'[l].pc = "sleep"
       /\ (ListenWake(l) /\ ~stopping /\ auto_reconnect) =>
            /\ tasks'[l].pc = "connect"
            /\ Len(transports') = Len(transports) + 1
            /\ tasks'[l].t = Len(transports') /\ transport' = tasks'[l].t
       /\ (ListenConnectOk(l) /\ ~stopping) =>
            /\ tasks'[l].pc = "read_line" /\ tasks'[l].t = tasks[l].t
            /\ transport' = tasks[l].t /\ transports'[tasks[l].t].connected
       /\ (ListenReadLine(l, WelcomeLine) /\ ~stopping
             /\ transport = tasks[l].t /\ transports[transport].connected) =>
            Synced(state') /\ sync_event'
       /\ (EntersReconnect(l) /\ (stopping \/ ~auto_reconnect)) =>
            /\ Len(transports') = Len(transports)
            /\ tasks'[l].pc = "done"]_vars

RECURSIVE Pow2(_)
Pow2(n) == IF n = 0 THEN 1 ELSE 2 * Pow2(n - 1)

\* min(initialBackoff * 2^(k-1), maxBackoff)
KthDelay(k) ==
  Min(reconnect_initial_backoff * Pow2(k - 1), reconnect_max_backoff)

\* C12: a failed connect of the reconnect loop is followed by one sleep and
\* nothing else; with 0 < initial backoff <= max backoff the k-th sleep of
\* an episode lasts between c and c * (1 + jitter) for
\* c = min(initial * 2^(k-1), max), and exactly c when the jitter is 0; a
\* successful connect is followed by no sleep.
C12_BackoffSchedule ==
  [][\A l \in DOMAIN tasks :
       /\ \A random \in Randoms :
            ListenConnectFail(l, random) =>
              /\ tasks'[l].pc = "sleep"
              /\ tasks'[l].sleeps = tasks[l].sleeps + 1
              /\ Len(log') = 1 /\ log'[1].event = "sleep"
              /\ (0 < reconnect_initial_backoff
                    /\ reconnect_initial_backoff <= reconnect_max_backoff) =>
                   LET c == KthDelay(tasks'[l].sleeps)
                   IN  /\ c * TenThousandths <= log'[1].seconds
                       /\ log'[1].seconds * Hundredths
                            <= c * TenThousandths * (Hundredths + reconnect_jitter)
                       /\ (reconnect_jitter = 0
                             => log'[1].seconds = c * TenThousandths)
       /\ ListenConnectOk(l) =>
            /\ tasks'[l].pc # "sleep"
            /\ \A i \in DOMAIN log' : log'[i].event # "sleep"]_vars

\* The second sleep of an episode, capped at the maximum backoff and
\* lengthened by the jitter.
C12_Witness ==
  /\ Len(tasks) = 1 /\ tasks[1].pc = "sleep" /\ tasks[1].sleeps = 2
  /\ 0 < reconnect_initial_backoff
  /\ reconnect_initial_backoff <= reconnect_max_backoff
  /\ reconnect_initial_backoff * 2 > reconnect_max_backoff
  /\ Len(log) = 1 /\ log[1].event = "sleep"
  /\ log[1].seconds > reconnect_max_backoff * TenThousandths

\* The invocations of callback k for an event about transport t among those
\* of a step.
Heard(inv, k, event, t) ==
  {i \in DOMAIN inv :
     inv[i].callback = k /\ inv[i].event = event /\ inv[i].t = t}

\* C13: when a transport becomes connected every registered callback is
\* invoked with `connected` for it, and a callback invoked with
\* received_message for a line of a transport made after the callback was
\* registered has been invoked with `connected` for that transport before.
C13_ConnectedBeforeMessages ==
  [][/\ \A t \in DOMAIN transports :
          (~transports[t].connected /\ transports'[t].connected) =>
             \A k \in callbacks : Heard(invoked', k, "connected", t) # {}
     /\ \A i \in DOMAIN invoked' :
          invoked'[i].event = "received_message" =>
             /\ invoked'[i].t \in heard'[invoked'[i].callback]
             /\ \A j \in Heard(invoked', invoked'[i].callback, "connected",
                                 invoked'[i].t) : j < i]_vars

\* A callback registered before the second transport was made, which got no
\* `connected` for the first, is invoked for a line of the second.
C13_Witness ==
  /\ heard["k2"] = {2}
  /\ Heard(invoked, "k2", "received_message", 2) # {}

\* C14: a callback invoked with received_message(m) sees the EnvyState that
\* apply(m) produced and, when m is Ok or Error and the queue was not empty,
\* the head waiter out of the queue and completed with m.
C14_StateAppliedBeforeEmit ==
  [][\A l \in DOMAIN tasks : \A line \in EventLines :
       ListenReadLine(l, line) =>
         LET m == ParseMessage(line)
         IN  \A i \in DOMAIN invoked' :
               invoked'[i].event = "received_message" =>
                 /\ invoked'[i].message = Some(m)
                 /\ invoked'[i].state = Apply(state, m)
                 /\ (m.type \in {"Ok", "Error"} /\ ack_waiters # <<>>) =>
                      /\ invoked'[i].ack_waiters = Tail(ack_waiters)
                      /\ invoked'[i].waiter[Head(ack_waiters)].st = "result"
                      /\ invoked'[i].waiter[Head(ack_waiters)].msg = Some(m)]_vars

\* C15: a step of the listen loop that reads a line invokes every callback
\* that is and stays registered once, with the message parsed from the line,
\* and no other step invokes a callback with received_message.
C15_OneEventPerLine ==
  [][/\ \A l \in DOMAIN tasks : \A line \in EventLines :
          ListenReadLine(l, line) =>
             \A k \in callbacks \cap callbacks' :
               /\ Cardinality(Heard(invoked', k, "received_message",
                                    tasks[l].t)) = 1
               /\ \A i \in DOMAIN invoked' :
                    (invoked'[i].callback = k
                       /\ invoked'[i].event = "received_message")
                      => invoked'[i].message = Some(ParseMessage(line))
     /\ (\E i \in DOMAIN invoked' : invoked'[i].event = "received_message")
          => \E l \in DOMAIN tasks : \E line \in EventLines :
               ListenReadLine(l, line)]_vars

\* Both callbacks were invoked for an unparseable line read from the second
\* transport.
C15_Witness ==
  /\ Len(invoked) = 2
  /\ \A i \in DOMAIN invoked :
       /\ invoked[i].event = "received_message" /\ invoked[i].t = 2
       /\ invoked[i].message = Some([type |-> "Unknown", raw |-> UnknownLine])
  /\ invoked[1].callback # invoked[2].callback

\* The events about transport t emitted in a step that ends with the log lg.
Emitted(lg, event, t) ==
  \E i \in DOMAIN lg : lg[i].event = event /\ lg[i].t = t

\* C16: while the raising callback k1 is registered, every registered
\* callback is invoked for each event emitted, and a line read from the
\* client's connected transport sets the sync event when it made the state
\* synced and leaves the task reading from that transport, with no close,
\* no `disconnected` and no new transport.
C16_RaisingCallbackIsolated ==
  []["k1" \in callbacks =>
       /\ \A t \in DOMAIN transports' : \A e \in {"connected", "disconnected"} :
            Emitted(log', e, t) =>
              \A k \in callbacks : Heard(invoked', k, e, t) # {}
       /\ \A l \in DOMAIN tasks : \A line \in EventLines :
            ListenReadLine(l, line) =>
              /\ \A k \in callbacks :
                   Heard(invoked', k, "received_message", tasks[l].t) # {}
              /\ (~stopping /\ transport = tasks[l].t
                    /\ transports[transport].connected) =>
                   /\ Synced(Apply(state, ParseMessage(line))) => sync_event'
                   /\ tasks'[l].pc = "read_line" /\ tasks'[l].t = tasks[l].t
                   /\ transport' = transport /\ transports' = transports
                   /\ log' = <<>>]_vars

\* The raising callback and then the other were invoked for the Welcome,
\* the sync event is set and the listen task reads on.
C16_Witness ==
  /\ Len(invoked) = 2
  /\ invoked[1].callback = "k1" /\ invoked[2].callback = "k2"
  /\ \A i \in DOMAIN invoked :
       /\ invoked[i].event = "received_message"
       /\ invoked[i].message = Some(WelcomeMessage("1.1.3"))
  /\ sync_event /\ transport # 0
  /\ \E l \in DOMAIN tasks : tasks[l].pc = "read_line" /\ tasks[l].t = transport

\* The wait_synced of task c ends in this step because its timeout expired.
Expires(c) == SyncResume(c) /\ sync_waiters[c] = "cancelled"

\* C17: a Welcome read from the client's transport gives every future that
\* a task in wait_synced is suspended on its result, and such a task then
\* returns, also when an earlier wait_synced of it has timed out; a
\* wait_synced whose timeout expired raises TimeoutError, and neither the
\* expiry nor the raising changes the sync event, the state, the transport,
\* the waiter queue or the listen task.
C17_WaitSyncedReleased ==
  [][/\ \A l \in DOMAIN tasks :
          (ListenReadLine(l, WelcomeLine) /\ tasks[l].t = transport) =>
             \A c \in Callers :
               sync_waiters[c] = "pending" => sync_waiters'[c] = "result"
     /\ \A c \in Callers :
          /\ (SyncResume(c) /\ sync_waiters[c] = "result") =>
               /\ last'.c = c /\ last'.op = "wait_synced"
               /\ last'.kind = "returned"
          /\ Expires(c) =>
               /\ last'.c = c /\ last'.op = "wait_synced"
               /\ last'.kind = "raised" /\ last'.exc = "TimeoutError"
          /\ (SyncTimeout(c) \/ Expires(c)) =>
               UNCHANGED <<sync_event, state, transport, transports,
                           ack_waiters, waiter, listen_task, tasks,
                           stopping, callbacks, command_lock>>
          /\ (calls[c].pc = "sync_wait" /\ sync_waiters[c] = "cancelled"
                /\ calls'[c].pc # "sync_wait") => Expires(c)]_vars

\* Both tasks are released by the Welcome: one whose earlier wait_synced
\* timed out, in an unbounded wait, and one in a bounded wait.
C17_Witness ==
  /\ timed_out = {"a"}
  /\ \A c \in Callers :
       calls[c].pc = "sync_wait" /\ sync_waiters[c] = "result"
  /\ ~calls["a"].bounded /\ calls["b"].bounded
  /\ sync_event /\ Synced(state)

\* The ProfileGroup messages of a sequence that precede its first end
\* marker.
RECURSIVE ItemsBeforeEnd(_)
ItemsBeforeEnd(ms) ==
  IF ms = <<>> \/ Head(ms).type = "ProfileGroupEnd" THEN <<>>
  ELSE IF Head(ms).type = "ProfileGroup"
  THEN <<Head(ms)>> \o ItemsBeforeEnd(Tail(ms))
  ELSE ItemsBeforeEnd(Tail(ms))

HasEnd(ms) == \E i \in DOMAIN ms : ms[i].type = "ProfileGroupEnd"

\* The enumeration of task c ends in this step.
EnumEnds(c) == calls[c].op = "enum" /\ last'.c = c /\ last'.op = "enum"

\* C18: an enumeration that returns has read an end marker since its
\* callback was registered and returns the ProfileGroup messages read since
\* then that precede the first end marker, in the order they were read; and
\* a task woken from the dequeue returns in that step when an end marker
\* has been read.
C18_EnumerationReturnsItems ==
  [][\A c \in Callers :
       /\ (EnumEnds(c) /\ last'.kind = "returned") =>
            /\ HasEnd(calls[c].seen)
            /\ last'.value = ItemsBeforeEnd(calls[c].seen)
       /\ (EnumResume(c) /\ calls[c].getter = "result"
             /\ HasEnd(calls[c].seen)) =>
            EnumEnds(c) /\ last'.kind = "returned"]_vars

\* The enumeration returned two items in the order the device sent them,
\* the reverse of their order in the profile list.
C18_Witness ==
  /\ last.op = "enum" /\ last.kind = "returned"
  /\ Len(last.value) = 2
  /\ last.value[1].group_id = "customProfileGroup1"
  /\ last.value[1].name = "Ambient Light"
  /\ last.value[2].group_id = "displayProfiles"

\* C19: on_message of a task is registered only while the task is in its
\* enumeration; the step in which the enumeration ends, by a return, an
\* exception or the cancellation of the task, leaves the callback set as it
\* was but for that callback, and the call found the set without it.
C19_EnumerationDeregisters ==
  [][\A c \in Callers :
       /\ OnMessage(c) \in callbacks' =>
            /\ calls'[c].op = "enum"
            /\ calls'[c].pc \in {"lock", "send_line", "ack_wait", "enum_wait"}
       /\ EnumEnds(c) =>
            /\ OnMessage(c) \notin callbacks'
            /\ callbacks' = callbacks \ {OnMessage(c)}
       /\ (calls[c].pc = "idle" /\ calls'[c].op = "enum") =>
            /\ OnMessage(c) \notin callbacks
            /\ callbacks' = callbacks \cup {OnMessage(c)}
       /\ (calls[c].pc = "idle" /\ last'.c = c /\ last'.op = "enum") =>
            /\ OnMessage(c) \notin callbacks
            /\ callbacks' = callbacks]_vars

\* Task a was cancelled in its enumeration while that of task b goes on:
\* only the callback of b is registered.
C19_Witness ==
  /\ last.c = "a" /\ last.op = "enum"
  /\ last.kind = "raised" /\ last.exc = "CancelledError"
  /\ calls["b"].op = "enum" /\ calls["b"].pc = "enum_wait"
  /\ callbacks = {OnMessage("b")}

\* C20: a task suspended in the dequeue has been acknowledged and has
\* collected every ProfileGroup message read since its callback was
\* registered; when the timeout of the dequeue has expired the task
\* collects no more and, unless it is cancelled, leaves by raising
\* EnumerationTimeoutError with the command line sent, the names of the
\* item and end types and the number of items collected.
C20_EnumerationTimeoutFields ==
  [][\A c \in Callers :
       /\ (calls'[c].pc = "enum_wait" /\ calls'[c].getter = "pending") =>
            /\ \E i \in DOMAIN calls'[c].seen : calls'[c].seen[i].type = "Ok"
            /\ ~HasEnd(calls'[c].seen)
            /\ calls'[c].items = ItemsBeforeEnd(calls'[c].seen)
       /\ (calls[c].pc = "enum_wait" /\ calls'[c].pc = "enum_wait"
             /\ calls'[c].getter = "cancelled") =>
            calls'[c].items = calls[c].items
       /\ (calls[c].pc = "enum_wait" /\ calls[c].getter = "cancelled"
             /\ calls'[c].pc \notin {"enum_wait", "cancelled"}) =>
            /\ EnumEnds(c)
            /\ last'.kind = "raised"
            /\ last'.exc = "EnumerationTimeoutError"
            /\ last'.command = "EnumProfileGroups"
            /\ last'.item_type = "ProfileGroupMessage"
            /\ last'.end_type = "ProfileGroupEndMessage"
            /\ last'.items_collected = Len(calls[c].items)]_vars

\* The enumeration timed out with two items collected.
C20_Witness ==
  /\ last.op = "enum" /\ last.kind = "raised"
  /\ last.exc = "EnumerationTimeoutError"
  /\ last.items_collected = 2

\* A step of the application task c in start(), stop() or a command.
CallerStep(c) ==
  \/ BeginStart(c) \/ StartConnectOk(c) \/ StartConnectFail(c)
  \/ BeginStop(c) \/ StopResume(c) \/ StopCloseDone(c)
  \/ \E w \in BOOLEAN : BeginCommand(c, w)
  \/ CommandAcquired(c) \/ SendLineOk(c) \/ SendLineFail(c)
  \/ AckResume(c)

\* C25: no step of an application task in start(), stop() or a command
\* changes a field of EnvyState.
C25_StateOwnedByListenTask ==
  [][\A c \in Callers : CallerStep(c) => state' = state]_vars


\* C26: parse_message returns a message for every line, and an Unknown
\* message carries the line as it was given.
C26_UnknownKeepsLine ==
  parsed.done =>
    /\ ~Raised(parsed.message)
    /\ parsed.message.type = "Unknown" =>
         parsed.message.raw = parsed.line

\* The argument as the line carries it: an integer in decimal, a string as
\* it is.
Written(arg) == IF arg.int THEN Str(arg.n) ELSE arg.s

\* C27: the tokens of the line that build_command built, each unquoted, are
\* the verb and the arguments it was built from.
C27_BuildRoundTrips ==
  built.done =>
    built.tokens = <<built.command>>
                     \o [i \in DOMAIN built.args |-> Written(built.args[i])]

\* The mapping of a snapshot tuple by field name.
Named(names, values) ==
  [k \in {names[i] : i \in DOMAIN names} |->
     values[CHOOSE i \in DOMAIN names : names[i] = k]]

\* C28: the payload of a snapshot has an entry for each of incoming_signal,
\* outgoing_signal, aspect_ratio and masking_ratio that the snapshot has
\* set, holding the values of the tuple by field name.
C28_PayloadSignals ==
  bridged.done =>
    LET snapshot == bridged.snapshot
        payload == bridged.payload
    IN  /\ snapshot.incoming_signal # None =>
             /\ "incoming_signal" \in DOMAIN payload
             /\ payload["incoming_signal"] =
                  Named(<<"resolution", "frame_rate", "signal_type",
                          "color_space", "bit_depth", "hdr_mode",
                          "colorimetry", "black_levels", "aspect_ratio">>,
                        snapshot.incoming_signal)
        /\ snapshot.outgoing_signal # None =>
             /\ "outgoing_signal" \in DOMAIN payload
             /\ payload["outgoing_signal"] =
                  Named(<<"resolution", "frame_rate", "signal_type",
                          "color_space", "bit_depth", "hdr_mode",
                          "colorimetry", "black_levels">>,
                        snapshot.outgoing_signal)
        /\ snapshot.aspect_ratio # None =>
             /\ "aspect_ratio" \in DOMAIN payload
             /\ payload["aspect_ratio"] =
                  Named(<<"resolution", "decimal_ratio", "integer_ratio",
                          "name">>,
                        snapshot.aspect_ratio)
        /\ snapshot.masking_ratio # None =>
             /\ "masking_ratio" \in DOMAIN payload
             /\ payload["masking_ratio"] =
                  Named(<<"resolution", "decimal_ratio", "integer_ratio">>,
                        snapshot.masking_ratio)

\* The three counters and the kinds of their events.
CounterKinds ==
  {<<"temporary_reset", "temporary_reset_count">>,
   <<"display_changed", "display_changed_count">>,
   <<"settings_uploaded", "settings_upload_count">>}

\* The positions of the events of a kind in the event list of the update.
EventsOf(kind) ==
  {i \in DOMAIN updated.events : updated.events[i].kind = kind}

\* C24: an update of an adapter that has a previous snapshot emits the
\* event of a counter exactly when the counter is greater than it was, once,
\* with the new value as count and the difference as increment; the first
\* update of an adapter emits none.
C24_CounterEvents ==
  updated.done =>
    \A ck \in CounterKinds :
      LET new_value == updated.snapshot[ck[2]] IN
      IF updated.previous = None THEN EventsOf(ck[1]) = {}
      ELSE LET old_value == updated.previous[1][ck[2]] IN
           /\ EventsOf(ck[1]) # {} <=> new_value > old_value
           /\ Cardinality(EventsOf(ck[1])) <= 1
           /\ \A i \in EventsOf(ck[1]) :
                updated.events[i].payload =
                  [count |-> new_value, increment |-> new_value - old_value]

\* An update after which one counter has dropped to zero and another has
\* gone up by two.
C24_Witness ==
  /\ updated.done
  /\ updated.previous # None
  /\ updated.previous[1].temporary_reset_count = 2
  /\ updated.snapshot.temporary_reset_count = 0
  /\ updated.previous[1].display_changed_count = 0
  /\ updated.snapshot.display_changed_count = 2
  /\ \E i \in DOMAIN updated.events :
       updated.events[i] =
         AdapterEvent("display_changed", [count |-> 2, increment |-> 2])

InitialEvent == AdapterEvent("initial", <<>>)
HasInitial(events) == \E j \in DOMAIN events : events[j].kind = "initial"

\* What C21 says of a call of a closure that invoked the consumer: the
\* first invocation of a registration has no deltas and `initial` as its
\* first event, a later one has no `initial` event.
InitialOnFirst(e) ==
  IF e.before = 0
  THEN e.deltas = <<>> /\ e.events # <<>> /\ e.events[1] = InitialEvent
  ELSE ~HasInitial(e.events)

\* C21 as stated: of every registration, the first invocation of the
\* consumer carries `initial` first and no deltas, and no later one
\* carries `initial`.
C21_InitialPerRegistration ==
  \A i \in DOMAIN consumed : consumed[i].called => InitialOnFirst(consumed[i])

\* The adapter of the closure had no snapshot when the closure was made,
\* and no other closure holds it.
OwnFreshAdapter(w) ==
  /\ wrapped[w].fresh
  /\ \A v \in Wrapped \ {w} : wrapped[v].adapter # wrapped[w].adapter

\* C21, amended: of every registration made with an adapter that had no
\* snapshot and that no other registration holds, the first invocation of
\* the consumer carries `initial` first and no deltas, and no later one
\* carries `initial`.
C21_InitialPerFreshAdapter ==
  \A i \in DOMAIN consumed :
    consumed[i].called /\ OwnFreshAdapter(consumed[i].w)
      => InitialOnFirst(consumed[i])

\* A registration with an adapter of its own has had its first invocation
\* and has a later one, with an event.
C21_Witness ==
  \E i \in DOMAIN consumed :
    /\ consumed[i].called /\ OwnFreshAdapter(consumed[i].w)
    /\ consumed[i].before = 1
    /\ consumed[i].events # <<>>

\* C22: a closure that has invoked its consumer before invokes it for an
\* event exactly when the event is a received message for which
\* adapter.update returned deltas or events; no closure invokes its
\* consumer with neither deltas nor events, or for an event that is not a
\* received message.
C22_SuppressedWhenUnchanged ==
  \A i \in DOMAIN consumed :
    LET e == consumed[i] IN
    /\ e.before >= 1 =>
         (e.called <=> /\ e.event = "received_message"
                       /\ e.ran
                       /\ e.deltas # <<>> \/ e.yielded # <<>>)
    /\ e.called => e.deltas # <<>> \/ e.events # <<>>
    /\ e.event # "received_message" => ~e.called

\* A closure that has invoked its consumer before passes on an update with
\* deltas and no event, and the other closure suppresses its update.
C22_Witness ==
  \E i, j \in DOMAIN consumed :
    /\ consumed[i].before >= 1 /\ consumed[i].called
    /\ consumed[i].deltas # <<>> /\ consumed[i].yielded = <<>>
    /\ consumed[j].before >= 1 /\ consumed[j].ran /\ ~consumed[j].called

\* C23 as stated: no callback is invoked when it is not registered.
C23_NeverInvokedOnceDeregistered ==
  \A i \in DOMAIN invoked : invoked[i].registered

\* The callback invoked at position i of a fan-out was deregistered by the
\* deregistering callback earlier in the same fan-out.
DeregisteredInFanOut(inv, i) ==
  \E j \in 1..(i - 1) :
    /\ inv[j].callback = Deregisterer
    /\ inv[j].event = inv[i].event /\ inv[j].t = inv[i].t
    /\ inv[i].callback = "k2"

\* C23, amended: a callback whose deregistration has returned is not in the
\* set, and no callback is invoked for an event emitted while it is not in
\* the set; a callback that another callback deregisters during a fan-out
\* is still invoked for the event of that fan-out, and for no later one.
C23_NotInvokedForLaterEvents ==
  [][/\ \A k \in AllCallbacks : Deregister(k) => k \notin callbacks'
     /\ \A i \in DOMAIN invoked' :
          /\ invoked'[i].callback \in callbacks
          /\ invoked'[i].registered \/ DeregisteredInFanOut(invoked', i)]_vars

\* The deregistering callback and then the callback it deregistered were
\* invoked for a line.
C23_Witness ==
  /\ Len(invoked) = 2
  /\ invoked[1].callback = Deregisterer /\ invoked[1].registered
  /\ invoked[2].callback = "k2" /\ ~invoked[2].registered
  /\ invoked[2].event = "received_message"
  /\ "k2" \notin callbacks

\* C29: when send_line raises in a command sent with wait_for_ack, the
\* caller gets that error, the waiter of the call is no longer queued, the
\* other waiters keep their order, the command lock is released to no one or
\* to the longest waiting task, and the connection is left as it was, so a
\* later command of the same task starts on it.
C29_SendFailureLeavesQueue ==
  [][\A c \in Callers :
       (SendLineFail(c) /\ calls[c].wait_for_ack) =>
         /\ last'.c = c /\ last'.kind = "raised" /\ last'.exc = "OSError"
         /\ ~In(ack_waiters', c)
         /\ ack_waiters' = SelectSeq(ack_waiters, LAMBDA x : x # c)
         /\ \A d \in Callers \ {c} : waiter'[d] = waiter[d]
         /\ command_lock' = Release(Cur).command_lock
         /\ command_lock'.holder # c
         /\ ~In(command_lock'.waiters, c)
         /\ calls'[c] = NoCall
         /\ transport' = transport /\ transports' = transports
         /\ listen_task' = listen_task /\ tasks' = tasks
         /\ stopping' = stopping]_vars

\* The send of task a failed while the waiter of another command was
\* queued before it: that waiter is still queued and pending.
C29_Witness ==
  /\ last.c = "a" /\ last.kind = "raised" /\ last.exc = "OSError"
  /\ last.wait_for_ack
  /\ ack_waiters # <<>>
  /\ \A i \in DOMAIN ack_waiters : waiter[ack_waiters[i]].st = "pending"
  /\ Connected(Cur)

\* The waiters of the queue whose wait has not timed out, oldest first.
Remaining(q) == SelectSeq(q, LAMBDA c : waiter[c].st # "cancelled")

\* C30: a caller whose ack wait timed out raises TimeoutError and its waiter
\* leaves the queue, the others keeping their order; when the listen loop
\* reads Ok or Error, no waiter whose wait has already timed out is taken
\* from the queue for it, and the oldest waiter that has not timed out is
\* completed with the message.
C30_TimedOutWaiterAbsorbsNothing ==
  [][/\ \A c \in Callers :
          (AckResume(c) /\ waiter[c].st = "cancelled") =>
             /\ last'.c = c /\ last'.kind = "raised"
             /\ last'.exc = "TimeoutError"
             /\ ~In(ack_waiters', c)
             /\ ack_waiters' = SelectSeq(ack_waiters, LAMBDA x : x # c)
     /\ \A l \in DOMAIN tasks : \A line \in {OkLine, ErrorLine} :
          (ListenReadLine(l, line) /\ ack_waiters # <<>>) =>
             /\ waiter[Head(ack_waiters)].st # "cancelled"
             /\ Remaining(ack_waiters) # <<>> =>
                  LET h == Head(Remaining(ack_waiters))
                  IN  /\ waiter'[h].st = "result"
                      /\ waiter'[h].msg = Some(ParseMessage(line))]_vars

\* C31: a read timeout in the listen loop leaves the device state, the ack
\* waiters and their queue, the transport and the sync event as they were,
\* invokes no callback and emits no event, and the task is back in
\* read_line on the same transport with no reconnect episode begun (or has
\* left the loop, when stop() has set the stopping flag); a listen task
\* leaves read_line for disconnect handling only in a step that is not a
\* read timeout.
C31_ReadTimeoutKeepsWaiting ==
  [][\A l \in DOMAIN tasks :
       ListenReadTimeout(l) =>
         /\ state' = state /\ ack_waiters' = ack_waiters /\ waiter' = waiter
         /\ transport' = transport /\ transports' = transports
         /\ sync_event' = sync_event /\ sync_waiters' = sync_waiters
         /\ invoked' = <<>> /\ log' = <<>>
         /\ heard' = heard /\ callbacks' = callbacks
         /\ IF stopping THEN tasks'[l].pc = "done"
            ELSE tasks'[l] = tasks[l]]_vars

\* A listen task waits in read_line on a connected, synced transport with
\* the waiter of a command pending and a callback registered: a read
\* timeout here is the case of the claim, and the state after it is this
\* state again.
C31_Witness ==
  \E l \in DOMAIN tasks :
    /\ Runnable(l) /\ tasks[l].pc = "read_line"
    /\ transports[tasks[l].t].connected /\ transport = tasks[l].t
    /\ ~stopping /\ Synced(state) /\ sync_event
    /\ ack_waiters # <<>> /\ waiter[Head(ack_waiters)].st = "pending"
    /\ callbacks # {}
    /\ log = <<>> /\ invoked = <<>>

\* The step applies one message to the state.
Applies == Len(envy'.applied) = Len(envy.applied) + 1
Applied == envy'.applied[Len(envy'.applied)]
PowerTypes == {"Welcome", "Standby", "PowerOff"}

\* C32: applying Welcome sets is_on true and standby false, Standby sets
\* is_on false and standby true, PowerOff sets both false, and any other
\* message leaves both as they were; is_on and standby are never both
\* true, and both are None exactly when none of the three messages was
\* applied since the last reset.
C32_PowerTransitions ==
  /\ [](/\ ~(envy.state.is_on = Some(TRUE)
               /\ envy.state.standby = Some(TRUE))
        /\ (envy.state.is_on = None /\ envy.state.standby = None)
             <=> ~\E i \in DOMAIN envy.applied :
                    envy.applied[i].type \in PowerTypes)
  /\ [][Applies =>
          LET power == <<envy'.state.is_on, envy'.state.standby>>
          IN  CASE Applied.type = "Welcome" ->
                     power = <<Some(TRUE), Some(FALSE)>>
                [] Applied.type = "Standby" ->
                     power = <<Some(FALSE), Some(TRUE)>>
                [] Applied.type = "PowerOff" ->
                     power = <<Some(FALSE), Some(FALSE)>>
                [] OTHER ->
                     power = <<envy.state.is_on, envy.state.standby>>]_vars

\* The device went to standby and was then powered off, and a key press
\* followed.
C32_Witness ==
  /\ Len(envy.applied) = 3
  /\ envy.applied[1].type = "Standby"
  /\ envy.applied[2].type = "PowerOff"
  /\ envy.applied[3].type = "KeyPress"
  /\ envy.state.is_on = Some(FALSE) /\ envy.state.standby = Some(FALSE)

\* The number of messages of a type among those applied since the reset.
Count(applied, type) ==
  Cardinality({i \in DOMAIN applied : applied[i].type = type})
Counters ==
  {<<"temporary_reset_count", "ResetTemporary">>,
   <<"display_changed_count", "DisplayChanged">>,
   <<"settings_upload_count", "UploadSettingsFile">>}

\* C33: between two resets of the state each of the three counters is the
\* number of ResetTemporary, DisplayChanged and UploadSettingsFile messages
\* applied: applying one of them adds one to its counter, applying any
\* other message changes no counter, and no counter decreases.
C33_CountersCount ==
  /\ [](\A ck \in Counters :
          envy.state[ck[1]] = Count(envy.applied, ck[2]))
  /\ [][Applies =>
          \A ck \in Counters :
            /\ envy'.state[ck[1]] >= envy.state[ck[1]]
            /\ envy'.state[ck[1]] =
                 IF Applied.type = ck[2] THEN envy.state[ck[1]] + 1
                 ELSE envy.state[ck[1]]]_vars

\* Two ResetTemporary messages and a DisplayChanged were applied since the
\* reset.
C33_Witness ==
  /\ Len(envy.applied) = 3
  /\ envy.applied[1].type = "ResetTemporary"
  /\ envy.applied[2].type = "DisplayChanged"
  /\ envy.applied[3].type = "ResetTemporary"
  /\ envy.state.temporary_reset_count = 2
  /\ envy.state.display_changed_count = 1
  /\ envy.state.settings_upload_count = 0

\* The text "g_i" of a profile group g and a profile index i.
KeyText(g, i) == g \o <<"_", IF i = 1 THEN "1" ELSE "2">>

\* C34: applying CreateProfile or RenameProfile {g, i, n} sets
\* profiles["g_i"] to n, applying a Profile item {id, n} sets profiles[id]
\* to n, applying DeleteProfile {g, i} leaves "g_i" absent, and each of them
\* leaves every other entry as it was (a delete of an absent key changes
\* nothing); no other message changes profiles.
C34_ProfileKeys ==
  [][Applies =>
       LET m == Applied
           old == envy.state.profiles
           new == envy'.state.profiles
           kept(key) ==
             /\ DOMAIN new \ {key} = DOMAIN old \ {key}
             /\ \A k \in DOMAIN old \ {key} : new[k] = old[k]
       IN  CASE m.type \in {"CreateProfile", "RenameProfile"} ->
                  LET key == KeyText(m.profile_group, m.profile_index)
                  IN  /\ key \in DOMAIN new /\ new[key] = m.name
                      /\ kept(key)
             [] m.type = "Profile" ->
                  /\ m.profile_id \in DOMAIN new
                  /\ new[m.profile_id] = m.name
                  /\ kept(m.profile_id)
             [] m.type = "DeleteProfile" ->
                  LET key == KeyText(m.profile_group, m.profile_index)
                  IN  /\ key \notin DOMAIN new
                      /\ kept(key)
                      /\ key \notin DOMAIN old => new = old
             [] OTHER -> new = old]_vars

\* Profile 1 of group "g" was created, profile 2 of group "g_1" was
\* renamed, and the delete of profile 1 of group "g" took the entry "g_1"
\* and left the entry "g_1_2".
C34_Witness ==
  /\ Len(envy.applied) = 3
  /\ envy.applied[1] = [type |-> "CreateProfile", profile_group |-> <<"g">>,
                        profile_index |-> 1, name |-> "Day"]
  /\ envy.applied[2].type = "RenameProfile"
  /\ envy.applied[2].profile_group = <<"g", "_", "1">>
  /\ envy.applied[2].profile_index = 2
  /\ envy.applied[3] = [type |-> "DeleteProfile", profile_group |-> <<"g">>,
                        profile_index |-> 1]
  /\ DOMAIN envy.state.profiles = {<<"g", "_", "1", "_", "2">>}

\* The step is a read of the oldest reply the device owes.
ReadsReply == device.owed # <<>> /\ device'.owed = Tail(device.owed)

\* C35: with a device that answers every command line once and in order,
\* a waiter is completed only by the reply to the line of its own call,
\* and so only once that line has been written.
C35_OwnReply ==
  [][ReadsReply =>
       \A c \in Callers :
         (waiter[c].st = "pending" /\ waiter'[c].st = "result") =>
            /\ calls[c].pc = "ack_wait"
            /\ Head(device.owed).c = c
            /\ Head(device.owed).id = device.last[c]]_vars


\* The connection events a registered callback has seen alternate when those
\* of es follow one after which the last was prev.
RECURSIVE Alternates(_, _)
Alternates(prev, es) ==
  \/ es = <<>>
  \/ /\ Head(es) # (IF prev = "none" THEN "disconnected" ELSE prev)
     /\ Alternates(Head(es), Tail(es))

\* C36: the `connected` and `disconnected` events emitted alternate and
\* begin with `connected`, and when a stop() returns the last event emitted,
\* if any, was `disconnected`.
C36_ConnectionEventsAlternate ==
  [][/\ Alternates(link, ConnectionEvents(log'))
     /\ (last'.op = "stop" /\ last'.kind = "returned")
          => link' # "connected"]_vars

\* C37: when a wait_synced returns, the state is synced.
C37_ReturnsSynced ==
  [][(last'.op = "wait_synced" /\ last'.kind = "returned")
       => Synced(state')]_vars

\* The event a consumer gets for a key or system-action message.
EventFor(m) ==
  IF m.type \in {"KeyPress", "KeyHold"}
  THEN AdapterEvent("button", "button" :> apply(EnvyState, m).last_button_event[1])
  ELSE AdapterEvent("system_action",
                    "action" :> apply(EnvyState, m).last_system_action[1])

\* The message applied in this step, while a consumer is registered.
Heeds(m) ==
  /\ envy.registered
  /\ envy'.applied = Append(envy.applied, m)

\* C38: every KeyPress, KeyHold, Restart, Hotplug or Toggle message received
\* while a consumer is registered invokes the consumer once with exactly
\* one `button` or `system_action` event for it.
C38_EveryActionHeard ==
  [][\A m \in ActionMessages :
       (Heeds(m) /\ m.type # "Welcome") =>
          /\ envy'.call # None
          /\ envy'.call[1].called
          /\ Cardinality({i \in DOMAIN envy'.call[1].events :
                            envy'.call[1].events[i] = EventFor(m)}) = 1
          /\ Cardinality({i \in DOMAIN envy'.call[1].events :
                            envy'.call[1].events[i].kind = EventFor(m).kind}) = 1]_vars

\* C39: when applying a message changes the state while a consumer is
\* registered, the snapshots of the state before and after differ, the
\* update returns a delta and the consumer is invoked.
C39_SnapshotTellsEveryChange ==
  [][\A m \in FieldMessages :
       (Heeds(m) /\ envy'.state # envy.state) =>
          /\ SnapshotFromState(envy'.state) # SnapshotFromState(envy.state)
          /\ envy'.call # None
          /\ envy'.call[1].deltas # <<>>
          /\ envy'.call[1].called]_vars

\* C40: an enumeration returns the one profile group the device streamed for
\* its own command, and it returns when the end marker the device sent for
\* that command has been read.
C40_OwnItemsOnly ==
  [][(last'.op = "enum" /\ last'.kind = "returned") =>
       /\ last'.value = <<ParseMessage(DisplaysLine)>>
       /\ \A i \in DOMAIN device'.owed :
            device'.owed[i].id # device'.last[last'.c]]_vars
====
